---------------------------- MODULE Spec2Model ----------------------------
(***************************************************************************)
(* Model of the kien-quoc game session backend: the game engine            *)
(* (backend/game/service.py, scoring.py, schemas.py), the connection       *)
(* registry (backend/websocket/manager.py), the state projector            *)
(* (state_filter.py), the message handlers and the phase timer             *)
(* (handlers.py) and the websocket endpoint loop (router.py).              *)
(*                                                                         *)
(* Scheduling is cooperative: a step of the model is the code run by one   *)
(* task between two suspension points.  Points (floats in the code) are    *)
(* exact rationals, kept as integers in units of 1/PointScale.             *)
(***************************************************************************)
EXTENDS Integers, Sequences, FiniteSets, TLC

(***************************************************************************)
(* Configuration: config/game_config.py, scoring_config.py,                *)
(* board_config.py, events_config.py, settings.py                          *)
(***************************************************************************)
MAX_TURNS == 8
RESOURCES_PER_TURN == 14
NUM_TEAMS == 5
PHASE_EVENT_DURATION == 15
PHASE_ACTION_DURATION == 60
PHASE_RESOLUTION_DURATION == 3
PHASE_RESULT_DURATION == 15
INDEX_MAXIMUM == 30
MIN_CONNECTED_TEAMS == 3
COOPERATION_MIN_TEAMS == 2
\* PROJECT_SUCCESS_BONUS_PER_RP = 1.0
PROJECT_SUCCESS_BONUS_PER_RP == 1
\* default of NationalIndices.apply_changes(changes, max_val=30)
APPLY_CHANGES_DEFAULT_MAX == 30

IndexNames == {"economy", "society", "culture", "integration", "environment", "science"}

\* the order in which is_any_zero / get_zero_index test the indices
IndexOrder == <<"economy", "society", "culture", "integration", "environment", "science">>

STARTING_INDICES == [k \in IndexNames |-> 10]

MAINTENANCE_COST == [k \in IndexNames |-> 1]

\* points are kept in units of 1/PointScale: tenths for the multipliers
\* (1.5, 1.8, 2.5) times 60 so that a pool splits evenly among 1..5 winners
PointScale == 10 * 60

\* CELL_MULTIPLIERS, in tenths
CELL_MULTIPLIERS_x10 ==
    [competitive |-> 15, synergy |-> 18, shared |-> 15, cooperation |-> 25, project |-> 10]

PROJECT_CELL_ID == "project-center"

\* BOARD_CELLS without PROJECT_CELLS, in dict order, with create_cell_id(pos)
BOARD_CELLS ==
    << [id |-> "cell-0-0", type |-> "cooperation"],
       [id |-> "cell-0-1", type |-> "synergy"],
       [id |-> "cell-0-2", type |-> "synergy"],
       [id |-> "cell-0-3", type |-> "competitive"],
       [id |-> "cell-1-0", type |-> "shared"],
       [id |-> "cell-1-3", type |-> "competitive"],
       [id |-> "cell-2-0", type |-> "synergy"],
       [id |-> "cell-2-3", type |-> "competitive"],
       [id |-> "cell-3-0", type |-> "shared"],
       [id |-> "cell-3-1", type |-> "synergy"],
       [id |-> "cell-3-2", type |-> "cooperation"],
       [id |-> "cell-3-3", type |-> "competitive"] >>

TURN_EVENTS ==
    << [min_total |-> 20, min_teams |-> 3,
        success_reward |-> [points |-> 8, economy |-> 4, society |-> 3],
        failure_penalty |-> [economy |-> -4, society |-> -3]],
       [min_total |-> 21, min_teams |-> 3,
        success_reward |-> [points |-> 10, integration |-> 5, economy |-> 3],
        failure_penalty |-> [integration |-> -4, economy |-> -3]],
       [min_total |-> 22, min_teams |-> 3,
        success_reward |-> [points |-> 12, science |-> 4, economy |-> 4],
        failure_penalty |-> [economy |-> -4, science |-> -3]],
       [min_total |-> 23, min_teams |-> 3,
        success_reward |-> [points |-> 12, environment |-> 5, society |-> 3],
        failure_penalty |-> [environment |-> -4, society |-> -3]],
       [min_total |-> 24, min_teams |-> 3,
        success_reward |-> [points |-> 14, integration |-> 4, economy |-> 4],
        failure_penalty |-> [integration |-> -4, economy |-> -3]],
       [min_total |-> 25, min_teams |-> 3,
        success_reward |-> [points |-> 14, integration |-> 5, culture |-> 3],
        failure_penalty |-> [integration |-> -5, culture |-> -4]],
       [min_total |-> 26, min_teams |-> 3,
        success_reward |-> [points |-> 16, economy |-> 5, science |-> 3],
        failure_penalty |-> [economy |-> -5, science |-> -4]],
       [min_total |-> 28, min_teams |-> 4,
        success_reward |-> [points |-> 20, economy |-> 3, society |-> 3, culture |-> 3,
                            integration |-> 3, environment |-> 3, science |-> 3],
        failure_penalty |-> [economy |-> -5, society |-> -5, culture |-> -5,
                             integration |-> -5, environment |-> -5, science |-> -5]] >>

get_event_by_turn(turn) == TURN_EVENTS[turn]

\* settings.HOST_SECRET, the room's host_token and the teams' session tokens:
\* opaque values, pairs so that they are pairwise comparable and distinct
HOST_SECRET == <<"host_secret", 0>>

HostToken(code) == <<"host_token", code>>

SessionToken(code, team_id) == <<"session_token", code * 10 + team_id>>

(***************************************************************************)
(* Small helpers                                                           *)
(***************************************************************************)
Max2(a, b) == IF a >= b THEN a ELSE b

Min2(a, b) == IF a <= b THEN a ELSE b

RECURSIVE SumSeq(_)
SumSeq(s) == IF s = <<>> THEN 0 ELSE Head(s) + SumSeq(Tail(s))

RECURSIVE MapAmount(_)
MapAmount(s) == IF s = <<>> THEN <<>> ELSE <<Head(s).amount>> \o MapAmount(Tail(s))

SumAmounts(s) == SumSeq(MapAmount(s))

RECURSIVE MaxAmount(_)
MaxAmount(s) == IF s = <<>> THEN 0 ELSE Max2(Head(s).amount, MaxAmount(Tail(s)))

\* dict.pop(key, None) on a dict modelled as a function
Pop(d, key) == [k \in DOMAIN d \ {key} |-> d[k]]

\* the index of the first element of s satisfying the id, 0 when there is none
RECURSIVE FindCell(_, _, _)
FindCell(s, cell_id, i) ==
    IF i > Len(s) THEN 0
    ELSE IF s[i].cell_id = cell_id THEN i
    ELSE FindCell(s, cell_id, i + 1)

RemoveAt(s, i) == SubSeq(s, 1, i - 1) \o SubSeq(s, i + 1, Len(s))


(***************************************************************************)
(* Data model: room/schemas.py, game/schemas.py                            *)
(***************************************************************************)
\* Room.game_state = None, and "no TurnResult"
NoGame == [none |-> TRUE]

NoResult == [none |-> TRUE]

TeamId(code, k) == code * 10 + k

\* RoomService.create_room: five teams, one per region, status WAITING
create_room(code) ==
    [code |-> code,
     host_token |-> HostToken(code),
     status |-> "waiting",
     teams |-> [k \in 1..NUM_TEAMS |->
                  [id |-> TeamId(code, k),
                   index |-> k - 1,
                   session_token |-> SessionToken(code, k),
                   score |-> 0,
                   resources |-> RESOURCES_PER_TURN,
                   placements |-> <<>>,
                   has_submitted |-> FALSE,
                   is_connected |-> FALSE]],
     game_state |-> NoGame]

\* next((t for t in room.teams if t.id == team_id), None): position, 0 for None
RECURSIVE FindTeam(_, _, _)
FindTeam(teams, team_id, i) ==
    IF i > Len(teams) THEN 0
    ELSE IF teams[i].id = team_id THEN i
    ELSE FindTeam(teams, team_id, i + 1)

\* RoomService.validate_session_token (the room is the one stored under the code)
validate_session_token(rm, team_id, token) ==
    LET i == FindTeam(rm.teams, team_id, 1)
    IN  i # 0 /\ rm.teams[i].session_token = token

(***************************************************************************)
(* NationalIndices: game/schemas.py                                        *)
(***************************************************************************)
\* fault: the clamp without its lower bound
ClampIndexAbove(v, max_val) == Min2(max_val, v)

ClampIndex(v, max_val) == Max2(0, Min2(max_val, v))

\* for key, delta in changes.items(): if hasattr(self, key): clamp and set
apply_changes(indices, changes, max_val) ==
    [k \in DOMAIN indices |->
        IF k \in DOMAIN changes
        THEN ClampIndex(indices[k] + changes[k], max_val)
        ELSE indices[k]]

\* fault: an index of exactly 0 does not count
IsAnyNegative(indices) == \E k \in DOMAIN indices : indices[k] < 0

is_any_zero(indices) == \E k \in DOMAIN indices : indices[k] <= 0

RECURSIVE FirstZero(_, _)
FirstZero(indices, i) ==
    IF i > Len(IndexOrder) THEN "none"
    ELSE IF indices[IndexOrder[i]] <= 0 THEN IndexOrder[i]
    ELSE FirstZero(indices, i + 1)

get_zero_index(indices) == FirstZero(indices, 1)

(***************************************************************************)
(* ScoringService: game/scoring.py.  A score dict is the sequence of its   *)
(* items [team_id, points] in insertion order; points in 1/PointScale.     *)
(***************************************************************************)
PositiveOnly(placements) == SelectSeq(placements, LAMBDA p : p.amount > 0)

Multiplier(type) == CELL_MULTIPLIERS_x10[type] * (PointScale \div 10)

\* fault: every team holding the highest amount takes the whole pool
ScoreWinnersWhole(placements, multiplier) ==
    [i \in 1..Len(placements) |->
        [team_id |-> placements[i].team_id,
         points |-> IF placements[i].amount = MaxAmount(placements)
                    THEN MaxAmount(placements) * multiplier ELSE 0]]

_score_competitive(placements, multiplier) ==
    LET max_amount == MaxAmount(placements)
        winners == SelectSeq(placements, LAMBDA p : p.amount = max_amount)
        total_pool == max_amount * multiplier
        prize_per_winner == total_pool \div Len(winners)
    IN  [i \in 1..Len(placements) |->
            [team_id |-> placements[i].team_id,
             points |-> IF placements[i].amount = max_amount THEN prize_per_winner ELSE 0]]

_score_synergy(placements, multiplier) ==
    [i \in 1..Len(placements) |->
        [team_id |-> placements[i].team_id, points |-> placements[i].amount * multiplier]]

_score_shared(placements, multiplier) ==
    LET total == SumAmounts(placements)
        total_pool == total * multiplier
    IN  [i \in 1..Len(placements) |->
            [team_id |-> placements[i].team_id,
             points |-> IF total > 0 THEN (placements[i].amount * total_pool) \div total ELSE 0]]

\* fault: a single team scores on a cooperation cell
ScoreWithoutThreshold(placements, multiplier) ==
    [i \in 1..Len(placements) |->
        [team_id |-> placements[i].team_id, points |-> placements[i].amount * multiplier]]

_score_cooperation(placements, multiplier) ==
    [i \in 1..Len(placements) |->
        [team_id |-> placements[i].team_id,
         points |-> IF Len(placements) < COOPERATION_MIN_TEAMS
                    THEN 0
                    ELSE placements[i].amount * multiplier]]

calculate_cell_scores(cell) ==
    LET placements == PositiveOnly(cell.placements)
        multiplier == Multiplier(cell.type)
    IN  IF placements = <<>> THEN <<>>
        ELSE CASE cell.type = "competitive" -> _score_competitive(placements, multiplier)
               [] cell.type = "synergy" -> _score_synergy(placements, multiplier)
               [] cell.type = "shared" -> _score_shared(placements, multiplier)
               [] cell.type = "cooperation" -> _score_cooperation(placements, multiplier)
               [] OTHER -> <<>>

\* fault: the thresholds have to be exceeded
ExceedsThresholds(total, num_teams, min_total, min_teams) ==
    total > min_total /\ num_teams > min_teams

\* success = total >= min_total and num_teams >= min_teams (line 90)
MeetsThresholds(total, num_teams, min_total, min_teams) ==
    total >= min_total /\ num_teams >= min_teams

calculate_project_result(contributions, min_total, min_teams) ==
    LET total == SumAmounts(contributions)
        num_teams == Len(PositiveOnly(contributions))
        success == MeetsThresholds(total, num_teams, min_total, min_teams)
    IN  [success |-> success,
         total_contributed |-> total,
         teams_contributed |-> num_teams,
         team_scores |-> [i \in 1..Len(contributions) |->
             [team_id |-> contributions[i].team_id,
              points |-> IF success
                         THEN contributions[i].amount * PROJECT_SUCCESS_BONUS_PER_RP * PointScale
                         ELSE 0]]]

\* fault: the list is filtered in place
FilterInPlace(original, selected) == [original |-> selected, list |-> selected]

\* [p for p in original if ...]: a new list; the original list is left alone
ListComprehension(original, selected) == [original |-> original, list |-> selected]

\* a call of calculate_cell_scores: the cell as the call leaves it and the
\* dict returned (every scores dict is built by the call, line 13 builds the
\* list the _score_ functions read)
calculate_cell_scores_run(cell) ==
    LET c == ListComprehension(cell.placements, PositiveOnly(cell.placements))
    IN  [cell |-> [cell EXCEPT !.placements = c.original],
         returned |-> calculate_cell_scores([cell EXCEPT !.placements = c.list])]

\* a call of calculate_project_result: the contributions list as the call
\* leaves it and the dict returned (line 88 builds the list it counts)
calculate_project_result_run(contributions, min_total, min_teams) ==
    LET c == ListComprehension(contributions, PositiveOnly(contributions))
    IN  [contributions |-> c.original,
         returned |-> [calculate_project_result(c.original, min_total, min_teams)
                          EXCEPT !.teams_contributed = Len(c.list)]]

\* sum of the points a score dict gives to team_id (dict.get(team_id, 0))
RECURSIVE PointsOf(_, _)
PointsOf(scores, team_id) ==
    IF scores = <<>> THEN 0
    ELSE (IF Head(scores).team_id = team_id THEN Head(scores).points ELSE 0)
         + PointsOf(Tail(scores), team_id)

(***************************************************************************)
(* GameService: game/service.py.  An operation returns the room it leaves  *)
(* and, in "raised", the message of the ValueError it raised ("" for none).*)
(***************************************************************************)
\* fault: every team of the room counts as connected
TeamCount(rm) == Len(rm.teams)

ConnectedCount(rm) == Cardinality({i \in 1..Len(rm.teams) : rm.teams[i].is_connected})

NewProjectStatus(event) ==
    [total_contributed |-> 0,
     contributing_teams |-> <<>>,
     min_total |-> event.min_total,
     min_teams |-> event.min_teams,
     status |-> "pending"]

\* fault: the submitted flag outlives the turn
ResetTeamKeepingFlag(team) ==
    [team EXCEPT !.resources = RESOURCES_PER_TURN,
                 !.placements = <<>>]

ResetTeam(team) ==
    [team EXCEPT !.resources = RESOURCES_PER_TURN,
                 !.placements = <<>>,
                 !.has_submitted = FALSE]

start_game(rm) ==
    IF ConnectedCount(rm) < MIN_CONNECTED_TEAMS
    THEN [raised |-> "Need at least 3 connected teams to start", room |-> rm]
    ELSE IF rm.status # "waiting"
    THEN [raised |-> "Game already started", room |-> rm]
    ELSE [raised |-> "",
          room |-> [rm EXCEPT
              !.game_state =
                  [current_turn |-> 1,
                   current_phase |-> "event",
                   phase_time_limit |-> PHASE_EVENT_DURATION,
                   is_paused |-> FALSE,
                   national_indices |-> STARTING_INDICES,
                   current_event |-> get_event_by_turn(1),
                   project_status |-> NewProjectStatus(get_event_by_turn(1)),
                   board |-> [i \in 1..Len(BOARD_CELLS) |->
                                [id |-> BOARD_CELLS[i].id,
                                 type |-> BOARD_CELLS[i].type,
                                 placements |-> <<>>]]],
              !.status = "playing",
              !.teams = [i \in 1..Len(rm.teams) |-> ResetTeam(rm.teams[i])]]]

\* the (team_id, amount) entries the teams, in list order, hold on cell_id
RECURSIVE PlacementsOn(_, _, _)
PlacementsOn(teams, cell_id, i) ==
    IF i > Len(teams) THEN <<>>
    ELSE LET mine == SelectSeq(teams[i].placements, LAMBDA p : p.cell_id = cell_id)
         IN  [j \in 1..Len(mine) |-> [team_id |-> teams[i].id, amount |-> mine[j].amount]]
             \o PlacementsOn(teams, cell_id, i + 1)

\* fault: the board cells are rebuilt, the project status is left as it was
SyncCellsOnly(rm) ==
    IF rm.game_state = NoGame THEN rm
    ELSE [rm EXCEPT
            !.game_state.board =
                [i \in 1..Len(rm.game_state.board) |->
                    [rm.game_state.board[i] EXCEPT
                        !.placements = PlacementsOn(rm.teams, rm.game_state.board[i].id, 1)]]]

_sync_placements_to_board(rm) ==
    IF rm.game_state = NoGame THEN rm
    ELSE LET contributions == PlacementsOn(rm.teams, PROJECT_CELL_ID, 1)
         IN  [rm EXCEPT
                !.game_state.board =
                    [i \in 1..Len(rm.game_state.board) |->
                        [rm.game_state.board[i] EXCEPT
                            !.placements = PlacementsOn(rm.teams, rm.game_state.board[i].id, 1)]],
                !.game_state.project_status.total_contributed = SumAmounts(contributions),
                !.game_state.project_status.contributing_teams = contributions]

\* fault: every accepted amount is appended, an existing placement is not edited
UpdatePlacementsAppending(placements, cell_id, amount) ==
    IF amount > 0
    THEN Append(placements, [cell_id |-> cell_id, amount |-> amount])
    ELSE placements

\* the team's placement list after the update of lines 114-120
UpdatePlacements(placements, cell_id, amount) ==
    LET k == FindCell(placements, cell_id, 1)
    IN  IF k # 0
        THEN IF amount = 0
             THEN RemoveAt(placements, k)
             ELSE [placements EXCEPT ![k].amount = amount]
        ELSE IF amount > 0
             THEN Append(placements, [cell_id |-> cell_id, amount |-> amount])
             ELSE placements

\* fault: the resource check is missing
NeverExceeds(change, resources) == FALSE

\* if change > team.resources: raise (line 105)
ExceedsResources(change, resources) == change > resources

\* fault: the amount is not tested
NeverNegative(amount) == FALSE

\* if amount < 0: raise (line 108)
IsNegative(amount) == amount < 0

place_resource(rm, team_id, cell_id, amount) ==
    IF rm.game_state = NoGame
    THEN [raised |-> "Game not started", room |-> rm]
    ELSE IF rm.game_state.current_phase # "action"
    THEN [raised |-> "Can only place during action phase", room |-> rm]
    ELSE IF FindTeam(rm.teams, team_id, 1) = 0
    THEN [raised |-> "Team not found", room |-> rm]
    ELSE
    LET i == FindTeam(rm.teams, team_id, 1)
        team == rm.teams[i]
        k == FindCell(team.placements, cell_id, 1)
        current_amount == IF k # 0 THEN team.placements[k].amount ELSE 0
        change == amount - current_amount
    IN  IF team.has_submitted
        THEN [raised |-> "Already submitted", room |-> rm]
        ELSE IF ExceedsResources(change, team.resources)
        THEN [raised |-> "Not enough resources", room |-> rm]
        ELSE IF IsNegative(amount)
        THEN [raised |-> "Amount cannot be negative", room |-> rm]
        ELSE [raised |-> "",
              room |-> _sync_placements_to_board(
                  [rm EXCEPT
                      !.teams[i].resources = team.resources - change,
                      !.teams[i].placements =
                          UpdatePlacements(team.placements, cell_id, amount)])]

\* fault: a submission closes the round for every team
SubmitForAll(rm, team_id) ==
    IF FindTeam(rm.teams, team_id, 1) = 0
    THEN [raised |-> "Team not found", room |-> rm]
    ELSE [raised |-> "",
          room |-> [rm EXCEPT !.teams = [i \in 1..Len(rm.teams) |->
                                            [rm.teams[i] EXCEPT !.has_submitted = TRUE]]]]

submit_turn(rm, team_id) ==
    IF FindTeam(rm.teams, team_id, 1) = 0
    THEN [raised |-> "Team not found", room |-> rm]
    ELSE [raised |-> "",
          room |-> [rm EXCEPT !.teams[FindTeam(rm.teams, team_id, 1)].has_submitted = TRUE]]

\* fault: the teams that are not connected count too
EveryTeamSubmitted(rm) == \A i \in 1..Len(rm.teams) : rm.teams[i].has_submitted

all_teams_submitted(rm) ==
    \A i \in 1..Len(rm.teams) : rm.teams[i].is_connected => rm.teams[i].has_submitted

\* team_turn_scores[team_id] after the cell loop of _process_turn
RECURSIVE CellPoints(_, _, _)
CellPoints(board, team_id, i) ==
    IF i > Len(board) THEN 0
    ELSE PointsOf(calculate_cell_scores(board[i]), team_id) + CellPoints(board, team_id, i + 1)

\* any(c['team_id'] == team.id and c['amount'] > 0 for c in contributing_teams)
Contributed(contributions, team_id) ==
    \E j \in 1..Len(contributions) :
        contributions[j].team_id = team_id /\ contributions[j].amount > 0

\* fault: every contributing team is given the whole bonus
WholeBonus(bonus_points, contributors) == bonus_points

\* bonus_points // len([c for c in contributing_teams if c['amount'] > 0])
BonusShare(bonus_points, contributors) == bonus_points \div contributors

\* the turn score of lines 312-324: int() of the float sum, plus the bonus share
TurnScore(gs, project_result, team_id) ==
    LET points == CellPoints(gs.board, team_id, 1)
                  + PointsOf(project_result.team_scores, team_id)
        contributions == gs.project_status.contributing_teams
        bonus_points == gs.current_event.success_reward.points
    IN  (points \div PointScale)
        + (IF project_result.success /\ contributions # <<>>
              /\ Contributed(contributions, team_id)
           THEN BonusShare(bonus_points, Len(PositiveOnly(contributions)))
           ELSE 0)

\* fault: a failed project costs nothing
NoPenalty(event, project_success) ==
    IF project_success THEN Pop(event.success_reward, "points") ELSE <<>>

\* the index changes of lines 300-305: the reward without 'points', or the
\* failure penalty
IndexChanges(event, project_success) ==
    IF project_success
    THEN Pop(event.success_reward, "points")
    ELSE event.failure_penalty

\* fault: the score of the turn replaces the team's score
SetScore(score, turn_score) == turn_score

\* team.score += turn_score (line 326)
AddScore(score, turn_score) == score + turn_score

_process_turn(rm) ==
    LET gs == rm.game_state
        project_result ==
            calculate_project_result(gs.project_status.contributing_teams,
                                     gs.project_status.min_total,
                                     gs.project_status.min_teams)
        project_success == project_result.success
        index_changes == IndexChanges(gs.current_event, project_success)
        new_indices == apply_changes(gs.national_indices, index_changes, INDEX_MAXIMUM)
        new_teams == [i \in 1..Len(rm.teams) |->
                        [rm.teams[i] EXCEPT
                            !.score = AddScore(@, TurnScore(gs, project_result, rm.teams[i].id))]]
    IN  [room |-> [rm EXCEPT
                      !.game_state.project_status.status =
                          IF project_success THEN "success" ELSE "failure",
                      !.game_state.national_indices = new_indices,
                      !.teams = new_teams],
         result |->
            [turn |-> gs.current_turn,
             project_success |-> project_success,
             project_contributions |->
                 [j \in 1..Len(gs.project_status.contributing_teams) |->
                     [team_id |-> gs.project_status.contributing_teams[j].team_id,
                      amount |-> gs.project_status.contributing_teams[j].amount,
                      points |-> PointsOf(project_result.team_scores,
                                          gs.project_status.contributing_teams[j].team_id)]],
             cell_results |->
                 [i \in 1..Len(gs.board) |->
                     [cell_id |-> gs.board[i].id,
                      team_scores |-> calculate_cell_scores(gs.board[i])]],
             index_changes |-> index_changes,
             new_indices |-> new_indices,
             team_scores |->
                 [i \in 1..Len(rm.teams) |->
                     [team_id |-> rm.teams[i].id,
                      turn_score |-> TurnScore(gs, project_result, rm.teams[i].id),
                      total_score |-> new_teams[i].score]]]]

\* for key, cost in MAINTENANCE_COST.items(): apply_changes({key: -cost})
ApplyMaintenance(indices) ==
    apply_changes(indices, [k \in DOMAIN MAINTENANCE_COST |-> 0 - MAINTENANCE_COST[k]],
                  APPLY_CHANGES_DEFAULT_MAX)

\* fault: the action phase moves straight to the result phase
PhaseAfterSkipping(phase) ==
    CASE phase = "event" -> "action"
      [] phase = "action" -> "result"
      [] phase = "resolution" -> "result"
      [] phase = "result" -> "event"

\* the phase each branch of advance_phase moves to
PhaseAfter(phase) ==
    CASE phase = "event" -> "action"
      [] phase = "action" -> "resolution"
      [] phase = "resolution" -> "result"
      [] phase = "result" -> "event"

\* fault: the teams' flags are left as they are
AutoSubmitNobody(teams) == teams

\* for team in room.teams: team.has_submitted = True (lines 196-197)
AutoSubmit(teams) == [i \in 1..Len(teams) |-> [teams[i] EXCEPT !.has_submitted = TRUE]]

\* every transition that falls through to lines 247-248
Stamp(rm) == [rm EXCEPT !.game_state.is_paused = FALSE]

advance_phase(rm) ==
    IF rm.game_state = NoGame
    THEN [raised |-> "Game not started", room |-> rm, result |-> NoResult]
    ELSE
    LET gs == rm.game_state
    IN  CASE gs.current_phase = "event" ->
               [raised |-> "", result |-> NoResult,
                room |-> Stamp([rm EXCEPT
                    !.game_state.current_phase = PhaseAfter("event"),
                    !.game_state.phase_time_limit = PHASE_ACTION_DURATION])]
          [] gs.current_phase = "action" ->
               LET forced == [rm EXCEPT
                      !.game_state.current_phase = PhaseAfter("action"),
                      !.game_state.phase_time_limit = PHASE_RESOLUTION_DURATION,
                      !.teams = AutoSubmit(rm.teams)]
                   processed == _process_turn(forced)
               IN  [raised |-> "", result |-> processed.result,
                    room |-> Stamp(processed.room)]
          [] gs.current_phase = "resolution" ->
               [raised |-> "", result |-> NoResult,
                room |-> Stamp([rm EXCEPT
                    !.game_state.current_phase = PhaseAfter("resolution"),
                    !.game_state.phase_time_limit = PHASE_RESULT_DURATION])]
          [] gs.current_phase = "result" ->
               LET paid == [rm EXCEPT
                      !.game_state.national_indices = ApplyMaintenance(gs.national_indices)]
               IN  IF is_any_zero(paid.game_state.national_indices)
                   THEN [raised |-> "", result |-> NoResult,
                         room |-> [paid EXCEPT !.status = "finished"]]
                   ELSE IF gs.current_turn >= MAX_TURNS
                   THEN [raised |-> "", result |-> NoResult,
                         room |-> [paid EXCEPT !.status = "finished"]]
                   ELSE [raised |-> "", result |-> NoResult,
                         room |-> Stamp([paid EXCEPT
                             !.game_state.current_turn = gs.current_turn + 1,
                             !.game_state.current_phase = PhaseAfter("result"),
                             !.game_state.phase_time_limit = PHASE_EVENT_DURATION,
                             !.game_state.current_event = get_event_by_turn(gs.current_turn + 1),
                             !.game_state.project_status =
                                 NewProjectStatus(get_event_by_turn(gs.current_turn + 1)),
                             !.teams = [i \in 1..Len(rm.teams) |-> ResetTeam(rm.teams[i])],
                             !.game_state.board =
                                 [i \in 1..Len(gs.board) |->
                                     [gs.board[i] EXCEPT !.placements = <<>>]]])]

\* fault: of the teams of the highest score, the last of the list comes first
\* (an ascending sort reversed)
LastBest(teams) ==
    CHOOSE i \in 1..Len(teams) :
        /\ \A j \in 1..Len(teams) : teams[j].score <= teams[i].score
        /\ \A j \in (i + 1)..Len(teams) : teams[j].score < teams[i].score

\* the position of the team sorted(..., reverse=True) puts first: of the
\* teams of the highest score, the first of the list (the sort is stable)
FirstBest(teams) ==
    CHOOSE i \in 1..Len(teams) :
        /\ \A j \in 1..Len(teams) : teams[j].score <= teams[i].score
        /\ \A j \in 1..(i - 1) : teams[j].score < teams[i].score

\* sorted(room.teams, key=lambda t: t.score, reverse=True): stable, so teams of
\* equal score keep their list order
RECURSIVE SortedByScore(_)
SortedByScore(teams) ==
    IF teams = <<>> THEN <<>>
    ELSE <<teams[FirstBest(teams)]>> \o SortedByScore(RemoveAt(teams, FirstBest(teams)))

get_game_over_result(rm) ==
    LET gs == rm.game_state
        zero == gs # NoGame /\ is_any_zero(gs.national_indices)
        sorted_teams == SortedByScore(rm.teams)
    IN  [reason |-> IF zero THEN "index_zero" ELSE "completed",
         failed_index |-> IF zero THEN get_zero_index(gs.national_indices) ELSE "none",
         final_rankings |-> [i \in 1..Len(sorted_teams) |->
                                [rank |-> i,
                                 team_id |-> sorted_teams[i].id,
                                 score |-> sorted_teams[i].score]],
         total_turns_played |-> IF gs # NoGame THEN gs.current_turn ELSE 0,
         final_indices |-> IF gs # NoGame THEN gs.national_indices
                           ELSE [k \in IndexNames |-> 10]]

pause_game(rm) ==
    IF rm.game_state # NoGame
    THEN [rm EXCEPT !.game_state.is_paused = TRUE, !.status = "paused"]
    ELSE rm

resume_game(rm) ==
    IF rm.game_state # NoGame
    THEN [rm EXCEPT !.game_state.is_paused = FALSE, !.status = "playing"]
    ELSE rm

(***************************************************************************)
(* State                                                                   *)
(***************************************************************************)
VARIABLES
    room_store,   \* RoomStore._room: the one room in memory, NoRoom for None
    manager,      \* the ConnectionManager singleton: _connections,
                  \* _team_connections, _host_connection
    pc,           \* the endpoint task of each live websocket: "idle" when it
                  \* waits in receive_json, "submit" when handle_submit_turn is
                  \* suspended in the TEAM_SUBMITTED broadcast, "closed" when
                  \* the peer is gone and the task has not run since
    timer_tasks,  \* _phase_timer tasks created by create_task, not yet run
    timers,       \* _phase_timer tasks asleep: a bag of [phase, turn]
    sent,         \* the messages the last step sent, per receiving websocket
    last          \* the last step: the message handled or the task run

vars == <<room_store, manager, pc, timer_tasks, timers, sent, last>>

NoRoom == [none |-> TRUE]

\* a websocket that is None (_host_connection = None), a team_id that is None
NoWs == 0

NoTeam == 0

\* the value None of a redacted field (filtered_team['resources'] = None)
None == -1

\* no timer (the step is not a timer's)
NoTimer == [code |-> 0, current_phase |-> "none", current_turn |-> 0]

\* no payload (the message has none, or the step is a task's)
NoInput == [none |-> TRUE]

\* what `last` records of a step: its kind, the websocket whose message was
\* handled (NoWs for a timer task), the payload of the message and the timer
\* that woke (NoTimer otherwise)
Step(op, ws, timer) == [op |-> op, ws |-> ws, timer |-> timer, input |-> NoInput]

StepIn(op, ws, input) == [op |-> op, ws |-> ws, timer |-> NoTimer, input |-> input]

\* RoomStore.get_by_code
get_by_code(store, code) ==
    IF store # NoRoom /\ store.code = code THEN store ELSE NoRoom

(***************************************************************************)
(* ConnectionManager: websocket/manager.py                                 *)
(***************************************************************************)
NewManager == [connections |-> <<>>, team_connections |-> <<>>, host_connection |-> NoWs]

NewConnectionInfo == [authenticated |-> FALSE, role |-> "none", team_id |-> NoTeam]

\* d[k] = v on a dict modelled as a function
Put(d, k, v) == [x \in DOMAIN d \cup {k} |-> IF x = k THEN v ELSE d[x]]

connect(mgr, ws, code) ==
    LET conns == IF code \in DOMAIN mgr.connections THEN mgr.connections[code] ELSE <<>>
    IN  [mgr EXCEPT !.connections = Put(mgr.connections, code, Put(conns, ws, NewConnectionInfo))]

\* fault: every connection is taken for the host's
AnyoneIsHost(mgr, ws, code) == [authenticated |-> TRUE, role |-> "host", team_id |-> NoTeam]

get_connection_info(mgr, ws, code) ==
    IF code \in DOMAIN mgr.connections /\ ws \in DOMAIN mgr.connections[code]
    THEN mgr.connections[code][ws]
    ELSE NewConnectionInfo

\* returns the info popped (found = FALSE for None) and the manager left
disconnect(mgr, ws, code) ==
    IF code \notin DOMAIN mgr.connections
    THEN [found |-> FALSE, info |-> NewConnectionInfo, manager |-> mgr]
    ELSE
    LET found == ws \in DOMAIN mgr.connections[code]
        info == IF found THEN mgr.connections[code][ws] ELSE NewConnectionInfo
        left == Pop(mgr.connections[code], ws)
        team_conns ==
            IF found /\ info.team_id # NoTeam
               /\ info.team_id \in DOMAIN mgr.team_connections
               /\ mgr.team_connections[info.team_id] = ws
            THEN Pop(mgr.team_connections, info.team_id)
            ELSE mgr.team_connections
        host_conn ==
            IF found /\ info.role = "host" /\ mgr.host_connection = ws
            THEN NoWs
            ELSE mgr.host_connection
    IN  [found |-> found, info |-> info,
         manager |-> [connections |-> IF DOMAIN left = {}
                                      THEN Pop(mgr.connections, code)
                                      ELSE [mgr.connections EXCEPT ![code] = left],
                      team_connections |-> team_conns,
                      host_connection |-> host_conn]]

\* fault: the duplicate-team check is missing
TeamNeverTaken(mgr, role, team_id) == FALSE

\* if team_id in self._team_connections (lines 84-86)
TeamTaken(mgr, role, team_id) ==
    role = "player" /\ team_id # NoTeam /\ team_id \in DOMAIN mgr.team_connections

authenticate(mgr, ws, code, role, team_id) ==
    IF code \notin DOMAIN mgr.connections
    THEN [success |-> FALSE, error |-> "Room not found", manager |-> mgr]
    ELSE IF ws \notin DOMAIN mgr.connections[code]
    THEN [success |-> FALSE, error |-> "Connection not found", manager |-> mgr]
    ELSE IF role = "host" /\ mgr.host_connection # NoWs
    THEN [success |-> FALSE, error |-> "Host already connected", manager |-> mgr]
    ELSE IF TeamTaken(mgr, role, team_id)
    THEN [success |-> FALSE, error |-> "Team already connected", manager |-> mgr]
    ELSE [success |-> TRUE, error |-> "",
          manager |->
             [connections |->
                  [mgr.connections EXCEPT ![code][ws] =
                      [authenticated |-> TRUE, role |-> role, team_id |-> team_id]],
              team_connections |->
                  IF role = "player" /\ team_id # NoTeam
                  THEN Put(mgr.team_connections, team_id, ws)
                  ELSE mgr.team_connections,
              host_connection |->
                  IF role = "host" THEN ws ELSE mgr.host_connection]]

(***************************************************************************)
(* State projector: websocket/state_filter.py                              *)
(***************************************************************************)
FilterTeam(team, conn_info) ==
    LET filtered_team == Pop(team, "session_token")
    IN  IF conn_info.role = "spectator"
           \/ (conn_info.role = "player" /\ team.id # conn_info.team_id)
        THEN [filtered_team EXCEPT !.placements = <<>>, !.resources = None]
        ELSE filtered_team

filter_game_state(message, conn_info) ==
    IF message.type # "GAME_STATE" THEN message
    ELSE IF conn_info.role = "host" THEN message
    ELSE [type |-> "GAME_STATE",
          data |-> Pop([message.data EXCEPT
                           !.teams = [i \in 1..Len(message.data.teams) |->
                                         FilterTeam(message.data.teams[i], conn_info)]],
                       "host_token")]

\* fault: the dict is not copied, what is written reaches the dict itself
DictAlias(original, written) == [original |-> written, copy |-> written]

\* d.copy() followed by writes (pop, item assignment) to the copy: the dict
\* copied is left as it was, the copy holds what was written
DictCopy(original, written) == [original |-> original, copy |-> written]

\* filter_game_state as a run over the objects it is handed: the message left
\* behind and the message returned.  data.copy() is shallow, so the team
\* dicts of the teams list are shared by data and filtered_data until
\* team.copy() (line 24); the list filtered_teams is a new one (line 21).
filter_game_state_run(message, conn_info) ==
    IF message.type # "GAME_STATE" \/ conn_info.role = "host"
    THEN [message |-> message, returned |-> message]
    ELSE LET teams == [i \in 1..Len(message.data.teams) |->
                          DictCopy(message.data.teams[i],
                                   FilterTeam(message.data.teams[i], conn_info))]
             data == [message.data EXCEPT
                         !.teams = [i \in 1..Len(teams) |-> teams[i].original]]
             filtered_data ==
                 DictCopy(data,
                          Pop([data EXCEPT !.teams = [i \in 1..Len(teams) |-> teams[i].copy]],
                              "host_token"))
         IN  [message |-> [message EXCEPT !.data = filtered_data.original],
              returned |-> [type |-> "GAME_STATE", data |-> filtered_data.copy]]

\* the messages a step sends: for each receiving websocket, the sequence of
\* the messages sent to it
NoMessages == <<>>

SendTo(out, ws, message) ==
    Put(out, ws, (IF ws \in DOMAIN out THEN out[ws] ELSE <<>>) \o <<message>>)

\* the websockets whose peer is gone while their endpoint task has not yet
\* seen the WebSocketDisconnect: send_json on them raises
Closed == {w \in DOMAIN pc : pc[w] = "closed"}

\* fault: the exception of a send is not caught and ends the broadcast
AbortOnFailure(receivers) == IF receivers \cap Closed # {} THEN {} ELSE receivers

\* try: await ws.send_json(msg_to_send) except Exception: pass (lines 134-137):
\* of the websockets the loop sends to, those the message reaches
Reached(receivers) == receivers \ Closed

\* ConnectionManager.broadcast_to_room, added to the messages of the step
broadcast_to_room(out, mgr, code, message, exclude, with_filter) ==
    IF code \notin DOMAIN mgr.connections THEN out
    ELSE LET receivers == Reached({w \in DOMAIN mgr.connections[code] :
                              w # exclude /\ mgr.connections[code][w].authenticated})
         IN  [w \in DOMAIN out \cup receivers |->
                (IF w \in DOMAIN out THEN out[w] ELSE <<>>)
                \o (IF w \in receivers
                    THEN <<IF with_filter
                           THEN filter_game_state(message, mgr.connections[code][w])
                           ELSE message>>
                    ELSE <<>>)]

\* WSHandlers._broadcast_game_state
_broadcast_game_state(out, store, mgr, code) ==
    IF get_by_code(store, code) = NoRoom THEN out
    ELSE broadcast_to_room(out, mgr, code,
                           [type |-> "GAME_STATE", data |-> get_by_code(store, code)],
                           NoWs, TRUE)

\* the loop of broadcast_to_room with filter_func = filter_game_state (lines
\* 120-137) over the connections in the order given: the one message object
\* is handed to the filter for each recipient in turn.  Returns the messages
\* sent and the message object left at the end.
RECURSIVE BroadcastLoop(_, _, _, _, _), LoopSend(_, _, _, _, _)
BroadcastLoop(out, mgr, code, message, order) ==
    IF order = <<>> THEN [out |-> out, message |-> message]
    ELSE LET ws == Head(order)
             info == mgr.connections[code][ws]
         IN  IF ~info.authenticated
             THEN BroadcastLoop(out, mgr, code, message, Tail(order))
             ELSE LoopSend(out, mgr, code, filter_game_state_run(message, info), order)

\* the body of the loop after the filter has run for the head of the order
LoopSend(out, mgr, code, run, order) ==
    BroadcastLoop(IF Head(order) \in Closed THEN out ELSE SendTo(out, Head(order), run.returned),
                  mgr, code, run.message, Tail(order))

(***************************************************************************)
(* The websocket endpoint and the handlers: websocket/router.py,           *)
(* websocket/handlers.py                                                   *)
(***************************************************************************)
LiveWs == DOMAIN pc

\* the room code of the endpoint task of a live websocket
CodeOf(ws) == CHOOSE code \in DOMAIN manager.connections : ws \in DOMAIN manager.connections[code]

Info(ws) == get_connection_info(manager, ws, CodeOf(ws))

\* a websocket object is never equal to an earlier one the manager still holds
Referenced(ws) ==
    \/ ws \in LiveWs
    \/ manager.host_connection = ws
    \/ \E t \in DOMAIN manager.team_connections : manager.team_connections[t] = ws

\* websocket_endpoint up to the loop: lines 17-32
Connect(ws, code) ==
    /\ last' = Step("CONNECT", ws, NoTimer)
    /\ ~Referenced(ws)
    /\ get_by_code(room_store, code) # NoRoom
    /\ manager' = connect(manager, ws, code)
    /\ pc' = Put(pc, ws, "idle")
    /\ sent' = SendTo(NoMessages, ws, [type |-> "CONNECTED"])
    /\ UNCHANGED <<room_store, timer_tasks, timers>>

\* fault: a team that connects starts the turn afresh
SetConnectedAfresh(store, code, team_id, value) ==
    IF get_by_code(store, code) # NoRoom /\ FindTeam(store.teams, team_id, 1) # 0
    THEN [store EXCEPT !.teams[FindTeam(store.teams, team_id, 1)] =
             IF value THEN [ResetTeam(@) EXCEPT !.is_connected = TRUE]
                      ELSE [@ EXCEPT !.is_connected = FALSE]]
    ELSE store

\* room.teams[team_id].is_connected = value, when the room and the team exist
SetConnected(store, code, team_id, value) ==
    IF get_by_code(store, code) # NoRoom /\ FindTeam(store.teams, team_id, 1) # 0
    THEN [store EXCEPT !.teams[FindTeam(store.teams, team_id, 1)].is_connected = value]
    ELSE store

\* the peer of the websocket goes away; the endpoint task has not run since
Close(ws) ==
    /\ last' = Step("CLOSE", ws, NoTimer)
    /\ ws \in LiveWs /\ pc[ws] = "idle"
    /\ pc' = [pc EXCEPT ![ws] = "closed"]
    /\ sent' = NoMessages
    /\ UNCHANGED <<room_store, manager, timer_tasks, timers>>

\* WebSocketDisconnect raised by receive_json: lines 66-82
Disconnect(ws) ==
    /\ last' = Step("DISCONNECT", ws, NoTimer)
    /\ ws \in LiveWs /\ pc[ws] \in {"idle", "closed"}
    /\ LET code == CodeOf(ws)
           d == disconnect(manager, ws, code)
       IN  /\ manager' = d.manager
           /\ pc' = Pop(pc, ws)
           /\ IF d.found /\ d.info.team_id # NoTeam
              THEN /\ room_store' = SetConnected(room_store, code, d.info.team_id, FALSE)
                   /\ sent' = IF get_by_code(room_store, code) # NoRoom
                              THEN broadcast_to_room(NoMessages, d.manager, code,
                                       [type |-> "TEAM_DISCONNECTED", team_id |-> d.info.team_id],
                                       NoWs, FALSE)
                              ELSE NoMessages
              ELSE /\ room_store' = room_store
                   /\ sent' = NoMessages
    /\ UNCHANGED <<timer_tasks, timers>>

\* WSHandlers.handle_auth
HandleAuth(ws, role, token, team_id) ==
    /\ last' = StepIn("AUTH", ws, [role |-> role, token |-> token, team_id |-> team_id])
    /\ ws \in LiveWs /\ pc[ws] = "idle"
    /\ LET code == CodeOf(ws)
           is_valid ==
               CASE role = "host" -> token = HOST_SECRET
                 [] role = "player" ->
                      /\ team_id # NoTeam
                      /\ get_by_code(room_store, code) # NoRoom
                      /\ validate_session_token(room_store, team_id, token)
                 [] OTHER -> get_by_code(room_store, code) # NoRoom
           a == authenticate(manager, ws, code, role, team_id)
       IN  IF ~is_valid
           THEN /\ sent' = SendTo(NoMessages, ws,
                               [type |-> "AUTH_FAILED", reason |-> "Invalid token"])
                /\ UNCHANGED <<room_store, manager, pc>>
           ELSE IF ~a.success
           THEN /\ sent' = SendTo(NoMessages, ws,
                               [type |-> "AUTH_FAILED", reason |-> a.error])
                /\ UNCHANGED <<room_store, manager, pc>>
           ELSE LET store == IF role = "player" /\ team_id # NoTeam
                             THEN SetConnected(room_store, code, team_id, TRUE)
                             ELSE room_store
                    out1 == SendTo(NoMessages, ws, [type |-> "AUTH_SUCCESS", role |-> role])
                    out2 == IF get_by_code(store, code) # NoRoom
                            THEN SendTo(out1, ws,
                                     filter_game_state(
                                         [type |-> "GAME_STATE", data |-> store],
                                         get_connection_info(a.manager, ws, code)))
                            ELSE out1
                IN  /\ room_store' = store
                    /\ manager' = a.manager
                    /\ sent' = IF role = "player" /\ team_id # NoTeam
                               THEN broadcast_to_room(out2, a.manager, code,
                                        [type |-> "TEAM_CONNECTED", team_id |-> team_id],
                                        ws, FALSE)
                               ELSE out2
                    /\ pc' = pc
    /\ UNCHANGED <<timer_tasks, timers>>

\* WSHandlers.handle_place_resource
HandlePlaceResource(ws, cell_id, amount) ==
    /\ last' = StepIn("PLACE_RESOURCE", ws, [cell_id |-> cell_id, amount |-> amount])
    /\ ws \in LiveWs /\ pc[ws] = "idle"
    /\ LET code == CodeOf(ws)
           conn_info == Info(ws)
           rm == get_by_code(room_store, code)
       IN  IF conn_info.role # "player"
           THEN /\ sent' = SendTo(NoMessages, ws,
                               [type |-> "ERROR", code |-> "UNAUTHORIZED",
                                message |-> "Only players can place resources"])
                /\ room_store' = room_store
           ELSE IF rm = NoRoom \/ conn_info.team_id = NoTeam
           THEN /\ sent' = NoMessages
                /\ room_store' = room_store
           ELSE IF cell_id = ""
           THEN /\ sent' = SendTo(NoMessages, ws,
                               [type |-> "ERROR", code |-> "INVALID_CELL",
                                message |-> "cell_id is required"])
                /\ room_store' = room_store
           ELSE LET r == place_resource(rm, conn_info.team_id, cell_id, amount)
                IN  IF r.raised # ""
                    THEN /\ sent' = SendTo(NoMessages, ws,
                                        [type |-> "ERROR", code |-> "PLACE_FAILED",
                                         message |-> r.raised])
                         /\ room_store' = room_store
                    ELSE /\ room_store' = r.room
                         /\ sent' = _broadcast_game_state(NoMessages, r.room, manager, code)
    /\ UNCHANGED <<manager, pc, timer_tasks, timers>>

(***************************************************************************)
(* Bags of timer tasks                                                     *)
(***************************************************************************)
BagAdd(b, x) == Put(b, x, (IF x \in DOMAIN b THEN b[x] ELSE 0) + 1)

BagRemove(b, x) == IF b[x] > 1 THEN [b EXCEPT ![x] = @ - 1] ELSE Pop(b, x)

RECURSIVE BagSize(_)
BagSize(b) ==
    IF DOMAIN b = {} THEN 0
    ELSE LET x == CHOOSE y \in DOMAIN b : TRUE IN b[x] + BagSize(Pop(b, x))

\* bound of the model: timer tasks alive at once
MaxTimers == 2

TimerRoom == BagSize(timer_tasks) + BagSize(timers) < MaxTimers

\* WSHandlers._advance_phase after the call of advance_phase (lines 272-292):
\* given what advance_phase returned, the room left, the messages broadcast,
\* and whether a _phase_timer task is created.  The read of room.status
\* (line 280) is taken together with advance_phase.
AfterAdvance(r, store, mgr, code) ==
    LET out1 == IF r.result # NoResult
                THEN broadcast_to_room(NoMessages, mgr, code,
                         [type |-> "TURN_RESULT", data |-> r.result], NoWs, FALSE)
                ELSE NoMessages
    IN  IF r.raised # ""
        THEN [raised |-> r.raised, room_store |-> store, out |-> NoMessages, timer |-> FALSE]
        ELSE IF r.room.status = "finished"
        THEN [raised |-> "", room_store |-> r.room, timer |-> FALSE,
              out |-> broadcast_to_room(out1, mgr, code,
                          [type |-> "GAME_OVER", data |-> get_game_over_result(r.room)],
                          NoWs, FALSE)]
        ELSE [raised |-> "", room_store |-> r.room, timer |-> TRUE,
              out |-> _broadcast_game_state(out1, r.room, mgr, code)]

\* WSHandlers._advance_phase, with the ValueError of advance_phase if any
_advance_phase(store, mgr, code) ==
    IF get_by_code(store, code) = NoRoom
    THEN [raised |-> "", room_store |-> store, out |-> NoMessages, timer |-> FALSE]
    ELSE AfterAdvance(advance_phase(get_by_code(store, code)), store, mgr, code)

\* WSHandlers.handle_submit_turn up to the await of the TEAM_SUBMITTED broadcast
HandleSubmitTurn(ws) ==
    /\ last' = Step("SUBMIT_TURN", ws, NoTimer)
    /\ ws \in LiveWs /\ pc[ws] = "idle"
    /\ LET code == CodeOf(ws)
           conn_info == Info(ws)
           rm == get_by_code(room_store, code)
       IN  IF conn_info.role # "player" \/ rm = NoRoom \/ conn_info.team_id = NoTeam
           THEN /\ sent' = NoMessages
                /\ UNCHANGED <<room_store, pc>>
           ELSE LET r == submit_turn(rm, conn_info.team_id)
                IN  IF r.raised # ""
                    THEN /\ sent' = SendTo(NoMessages, ws,
                                        [type |-> "ERROR", code |-> "SUBMIT_FAILED",
                                         message |-> r.raised])
                         /\ UNCHANGED <<room_store, pc>>
                    ELSE /\ room_store' = r.room
                         /\ sent' = broadcast_to_room(NoMessages, manager, code,
                                        [type |-> "TEAM_SUBMITTED",
                                         team_id |-> conn_info.team_id], NoWs, FALSE)
                         /\ pc' = [pc EXCEPT ![ws] = "submit"]
    /\ UNCHANGED <<manager, timer_tasks, timers>>

\* WSHandlers.handle_submit_turn after the broadcast: lines 165-174
SubmitResume(ws) ==
    /\ last' = Step("SUBMIT_RESUME", ws, NoTimer)
    /\ ws \in LiveWs /\ pc[ws] = "submit"
    /\ LET code == CodeOf(ws)
           a == _advance_phase(room_store, manager, code)
       IN  IF get_by_code(room_store, code) # NoRoom /\ all_teams_submitted(room_store)
           THEN /\ a.timer => TimerRoom
                /\ room_store' = a.room_store
                /\ sent' = IF a.raised # ""
                           THEN SendTo(NoMessages, ws,
                                    [type |-> "ERROR", code |-> "SUBMIT_FAILED",
                                     message |-> a.raised])
                           ELSE a.out
                /\ timer_tasks' = IF a.timer THEN BagAdd(timer_tasks, code) ELSE timer_tasks
           ELSE /\ sent' = NoMessages
                /\ UNCHANGED <<room_store, timer_tasks>>
    /\ pc' = [pc EXCEPT ![ws] = "idle"]
    /\ UNCHANGED <<manager, timers>>

\* WSHandlers.handle_host_start
HandleHostStart(ws) ==
    /\ last' = Step("HOST_START", ws, NoTimer)
    /\ ws \in LiveWs /\ pc[ws] = "idle"
    /\ LET code == CodeOf(ws)
           rm == get_by_code(room_store, code)
       IN  IF Info(ws).role # "host"
           THEN /\ sent' = SendTo(NoMessages, ws,
                               [type |-> "ERROR", code |-> "UNAUTHORIZED",
                                message |-> "Only host can start game"])
                /\ UNCHANGED <<room_store, timer_tasks>>
           ELSE IF rm = NoRoom
           THEN /\ sent' = NoMessages
                /\ UNCHANGED <<room_store, timer_tasks>>
           ELSE LET r == start_game(rm)
                IN  IF r.raised # ""
                    THEN /\ sent' = SendTo(NoMessages, ws,
                                        [type |-> "ERROR", code |-> "START_FAILED",
                                         message |-> r.raised])
                         /\ UNCHANGED <<room_store, timer_tasks>>
                    ELSE /\ TimerRoom
                         /\ room_store' = r.room
                         /\ sent' = _broadcast_game_state(NoMessages, r.room, manager, code)
                         /\ timer_tasks' = BagAdd(timer_tasks, code)
    /\ UNCHANGED <<manager, pc, timers>>

\* WSHandlers.handle_host_pause
HandleHostPause(ws) ==
    /\ last' = Step("HOST_PAUSE", ws, NoTimer)
    /\ ws \in LiveWs /\ pc[ws] = "idle"
    /\ LET code == CodeOf(ws)
           rm == get_by_code(room_store, code)
       IN  IF Info(ws).role = "host" /\ rm # NoRoom
           THEN /\ room_store' = pause_game(rm)
                /\ sent' = _broadcast_game_state(NoMessages, pause_game(rm), manager, code)
           ELSE /\ sent' = NoMessages
                /\ room_store' = room_store
    /\ UNCHANGED <<manager, pc, timer_tasks, timers>>

\* WSHandlers.handle_host_resume
HandleHostResume(ws) ==
    /\ last' = Step("HOST_RESUME", ws, NoTimer)
    /\ ws \in LiveWs /\ pc[ws] = "idle"
    /\ LET code == CodeOf(ws)
           rm == get_by_code(room_store, code)
       IN  IF Info(ws).role = "host" /\ rm # NoRoom
           THEN /\ TimerRoom
                /\ room_store' = resume_game(rm)
                /\ sent' = _broadcast_game_state(NoMessages, resume_game(rm), manager, code)
                /\ timer_tasks' = BagAdd(timer_tasks, code)
           ELSE /\ sent' = NoMessages
                /\ UNCHANGED <<room_store, timer_tasks>>
    /\ UNCHANGED <<manager, pc, timers>>

\* WSHandlers.handle_host_skip; the ValueError of advance_phase is not caught
\* there and ends the endpoint in its except Exception branch (router.py 84-85)
HandleHostSkip(ws) ==
    /\ last' = Step("HOST_SKIP", ws, NoTimer)
    /\ ws \in LiveWs /\ pc[ws] = "idle"
    /\ LET code == CodeOf(ws)
           a == _advance_phase(room_store, manager, code)
       IN  IF Info(ws).role # "host"
           THEN /\ sent' = NoMessages
                /\ UNCHANGED <<room_store, manager, pc, timer_tasks>>
           ELSE IF a.raised # ""
           THEN /\ manager' = disconnect(manager, ws, code).manager
                /\ pc' = Pop(pc, ws)
                /\ sent' = NoMessages
                /\ UNCHANGED <<room_store, timer_tasks>>
           ELSE /\ a.timer => TimerRoom
                /\ room_store' = a.room_store
                /\ sent' = a.out
                /\ timer_tasks' = IF a.timer THEN BagAdd(timer_tasks, code) ELSE timer_tasks
                /\ UNCHANGED <<manager, pc>>
    /\ UNCHANGED timers

\* WSHandlers.handle_host_end
HandleHostEnd(ws) ==
    /\ last' = Step("HOST_END", ws, NoTimer)
    /\ ws \in LiveWs /\ pc[ws] = "idle"
    /\ LET code == CodeOf(ws)
           rm == get_by_code(room_store, code)
       IN  IF Info(ws).role = "host" /\ rm # NoRoom
           THEN /\ room_store' = [rm EXCEPT !.status = "finished"]
                /\ sent' = broadcast_to_room(NoMessages, manager, code,
                               [type |-> "GAME_OVER",
                                data |-> get_game_over_result([rm EXCEPT !.status = "finished"])],
                               NoWs, FALSE)
           ELSE /\ sent' = NoMessages
                /\ room_store' = room_store
    /\ UNCHANGED <<manager, pc, timer_tasks, timers>>

(***************************************************************************)
(* The phase timer: WSHandlers._phase_timer                                *)
(***************************************************************************)
\* the task runs up to its sleep: lines 312-320
TimerStart(code) ==
    /\ last' = Step("TIMER_START", NoWs, NoTimer)
    /\ code \in DOMAIN timer_tasks
    /\ timer_tasks' = BagRemove(timer_tasks, code)
    /\ LET rm == get_by_code(room_store, code)
       IN  timers' = IF rm = NoRoom \/ rm.game_state = NoGame
                     THEN timers
                     ELSE BagAdd(timers, [code |-> code,
                                          current_phase |-> rm.game_state.current_phase,
                                          current_turn |-> rm.game_state.current_turn])
    /\ sent' = NoMessages
    /\ UNCHANGED <<room_store, manager, pc>>

\* fault: a timer that wakes never advances the phase
TimerGivesUp(store, timer) == FALSE

\* fault: the timer does not compare the phase and turn it captured
TimerStillValidAnyPhase(store, timer) ==
    LET rm == get_by_code(store, timer.code)
    IN  /\ rm # NoRoom
        /\ rm.game_state # NoGame
        /\ ~rm.game_state.is_paused
        /\ rm.status = "playing"

\* whether the timer, awake, goes on to _advance_phase: lines 323-335
TimerStillValid(store, timer) ==
    LET rm == get_by_code(store, timer.code)
    IN  /\ rm # NoRoom
        /\ rm.game_state # NoGame
        /\ ~(rm.game_state.current_phase # timer.current_phase
             \/ rm.game_state.current_turn # timer.current_turn)
        /\ ~rm.game_state.is_paused
        /\ rm.status = "playing"

\* the sleep is over: lines 322-338
TimerFire(timer) ==
    /\ last' = Step("TIMER_FIRE", NoWs, timer)
    /\ timer \in DOMAIN timers
    /\ IF TimerStillValid(room_store, timer)
       THEN LET a == _advance_phase(room_store, manager, timer.code)
            IN  /\ room_store' = a.room_store
                /\ sent' = a.out
                /\ timer_tasks' = IF a.timer THEN BagAdd(timer_tasks, timer.code)
                                  ELSE timer_tasks
       ELSE /\ sent' = NoMessages
            /\ UNCHANGED <<room_store, timer_tasks>>
    /\ timers' = BagRemove(timers, timer)
    /\ UNCHANGED <<manager, pc>>

(***************************************************************************)
(* Specifications.  The store holds one room.  SpecPhase, SpecPlace and     *)
(* SpecIndices start in a lobby where the host, three players and a         *)
(* spectator are authenticated; SpecReg starts with no connection.          *)
(***************************************************************************)
\* the code of the room in the store
RoomCode == 1

\* the websockets of the players of teams 1..3, of the host and of a spectator
PlayerWs == 1..MIN_CONNECTED_TEAMS

HostWs == NUM_TEAMS + 1

SpectatorWs == NUM_TEAMS + 2

\* the state Connect and HandleAuth lead to for the five websockets
RECURSIVE AuthPlayers(_, _)
AuthPlayers(mgr, wss) ==
    IF wss = {} THEN mgr
    ELSE LET ws == CHOOSE w \in wss : TRUE
         IN  AuthPlayers(authenticate(connect(mgr, ws, RoomCode), ws, RoomCode,
                                      "player", TeamId(RoomCode, ws)).manager,
                         wss \ {ws})

LobbyManager ==
    LET host == authenticate(connect(NewManager, HostWs, RoomCode), HostWs, RoomCode,
                             "host", NoTeam).manager
        spectator == authenticate(connect(host, SpectatorWs, RoomCode), SpectatorWs,
                                  RoomCode, "spectator", NoTeam).manager
    IN  AuthPlayers(spectator, PlayerWs)

LobbyRoom ==
    LET rm == create_room(RoomCode)
    IN  [rm EXCEPT !.teams = [k \in 1..NUM_TEAMS |->
            [rm.teams[k] EXCEPT !.is_connected = (k \in PlayerWs)]]]

Init ==
    /\ room_store = LobbyRoom
    /\ manager = LobbyManager
    /\ pc = [ws \in {HostWs, SpectatorWs} \cup PlayerWs |-> "idle"]
    /\ timer_tasks = <<>>
    /\ timers = <<>>
    /\ last = Step("init", NoWs, NoTimer)
    /\ sent = NoMessages

InPhase(phase) ==
    IF room_store.game_state = NoGame THEN FALSE
    ELSE room_store.game_state.current_phase = phase

\* SpecPhase: the phase machine under the host's skip, pause and resume, the
\* submissions of one player sent during the action phase, and the timers.
\* It starts in the session the lobby reaches by HOST_START followed by the
\* disconnection of the players of teams 2 and 3, before the first timer task
\* has run: team 1 is the only connected team.  No resource is placed, so
\* every project fails and the game ends by the third turn.
SubmitWs == {1}

LeftWs == PlayerWs \ SubmitWs

RECURSIVE Leave(_, _)
Leave(state, wss) ==
    IF wss = {} THEN state
    ELSE LET ws == CHOOSE w \in wss : TRUE
             d == disconnect(state.manager, ws, RoomCode)
         IN  Leave([manager |-> d.manager,
                    room_store |-> SetConnected(state.room_store, RoomCode,
                                                d.info.team_id, FALSE),
                    last |-> Step("DISCONNECT", ws, NoTimer),
                    sent |-> broadcast_to_room(NoMessages, d.manager, RoomCode,
                                 [type |-> "TEAM_DISCONNECTED", team_id |-> d.info.team_id],
                                 NoWs, FALSE)],
                   wss \ {ws})

Started ==
    Leave([manager |-> LobbyManager, room_store |-> start_game(LobbyRoom).room,
           last |-> Step("HOST_START", HostWs, NoTimer), sent |-> NoMessages], LeftWs)

InitStarted ==
    /\ pc = [ws \in {HostWs, SpectatorWs} \cup SubmitWs |-> "idle"]
    /\ room_store = Started.room_store
    /\ manager = Started.manager
    /\ timer_tasks = BagAdd(<<>>, RoomCode)
    /\ timers = <<>>
    /\ last = Started.last
    /\ sent = Started.sent

NextPhase ==
    \/ HandleHostSkip(HostWs)
    \/ HandleHostPause(HostWs)
    \/ HandleHostResume(HostWs)
    \/ \E ws \in SubmitWs : InPhase("action") /\ HandleSubmitTurn(ws)
    \/ \E ws \in SubmitWs : SubmitResume(ws)
    \/ \E code \in DOMAIN timer_tasks : TimerStart(code)
    \/ \E timer \in DOMAIN timers : TimerFire(timer)

SpecPhase == InitStarted /\ [][NextPhase]_vars

\* SpecPlace: the placements of one player on the project and on a competitive
\* cell, the phases driven by the timers
PlaceWs == {1}

PlaceCells == {PROJECT_CELL_ID, "cell-0-3"}

PlaceAmounts == {-1, 0, 7, 8, 15}

NextPlace ==
    \/ HandleHostStart(HostWs)
    \/ \E ws \in PlaceWs, cell_id \in PlaceCells, amount \in PlaceAmounts :
          HandlePlaceResource(ws, cell_id, amount)
    \/ \E code \in DOMAIN timer_tasks : TimerStart(code)
    \/ \E timer \in DOMAIN timers : TimerFire(timer)

SpecPlace == Init /\ [][NextPlace]_vars

\* SpecIndices: the three players may each put 7 on the project, so projects
\* succeed (turns 1 and 2) or fail; the phases are driven by the timers
ProjectAmounts == {7}

NextIndices ==
    \/ HandleHostStart(HostWs)
    \/ \E ws \in PlayerWs, amount \in ProjectAmounts :
          HandlePlaceResource(ws, PROJECT_CELL_ID, amount)
    \/ \E code \in DOMAIN timer_tasks : TimerStart(code)
    \/ \E timer \in DOMAIN timers : TimerFire(timer)

SpecIndices == Init /\ [][NextIndices]_vars

\* SpecReg: connections, AUTH messages and disconnections in the lobby
MaxWs == 2

RegWs == 1..MaxWs

RegTeams == {TeamId(RoomCode, 1)}

AuthRoles == {"host", "player", "spectator"}

AuthTokens == {HOST_SECRET, SessionToken(RoomCode, 1)}

AuthTeams == {NoTeam} \cup RegTeams

InitReg ==
    /\ room_store = create_room(RoomCode)
    /\ manager = NewManager
    /\ pc = <<>>
    /\ timer_tasks = <<>>
    /\ timers = <<>>
    /\ last = Step("init", NoWs, NoTimer)
    /\ sent = NoMessages

NextReg ==
    \/ \E ws \in RegWs : Connect(ws, RoomCode)
    \/ \E ws \in RegWs, role \in AuthRoles, token \in AuthTokens, team_id \in AuthTeams :
          HandleAuth(ws, role, token, team_id)
    \/ \E ws \in RegWs : Disconnect(ws)

SpecReg == InitReg /\ [][NextReg]_vars

\* SpecTurns: a game of four connected teams that may put 7 each on the
\* project in an action phase, one after the other in the order of their
\* websockets, the phases driven by the timers: a project succeeds when all
\* four have contributed, and the game can last the eight turns.
TurnWs == 1..(MIN_CONNECTED_TEAMS + 1)

InitTurns ==
    /\ room_store = SetConnected(LobbyRoom, RoomCode,
                                 TeamId(RoomCode, MIN_CONNECTED_TEAMS + 1), TRUE)
    /\ manager = AuthPlayers(LobbyManager, TurnWs \ PlayerWs)
    /\ pc = [ws \in {HostWs, SpectatorWs} \cup TurnWs |-> "idle"]
    /\ timer_tasks = <<>>
    /\ timers = <<>>
    /\ last = Step("init", NoWs, NoTimer)
    /\ sent = NoMessages

NextTurns ==
    \/ HandleHostStart(HostWs)
    \/ \E ws \in TurnWs, amount \in ProjectAmounts :
          /\ InPhase("action")
          /\ Len(room_store.game_state.project_status.contributing_teams) = ws - 1
          /\ HandlePlaceResource(ws, PROJECT_CELL_ID, amount)
    \/ \E code \in DOMAIN timer_tasks : TimerStart(code)
    \/ \E timer \in DOMAIN timers : TimerFire(timer)

SpecTurns == InitTurns /\ [][NextTurns]_vars

\* SpecRound: the last round of a game whose first two projects got no
\* contribution.  The players of teams 1 and 2 put 7 on a competitive cell and
\* submit during the action phase; the player of team 3 never acts and may
\* leave during the action phase.  The phase is advanced by the host's skip,
\* by the timers and by the submissions.  It starts when the timer of the
\* result phase of turn 2 has fired and the task it created has not run yet.
RoundTurn == 3

RECURSIVE PlayUntilTurn(_, _)
PlayUntilTurn(rm, turn) ==
    IF rm.game_state.current_turn = turn THEN rm
    ELSE PlayUntilTurn(advance_phase(rm).room, turn)

RoundRoom == PlayUntilTurn(start_game(LobbyRoom).room, RoundTurn)

InitRound ==
    /\ room_store = RoundRoom
    /\ manager = LobbyManager
    /\ pc = [ws \in {HostWs, SpectatorWs} \cup PlayerWs |-> "idle"]
    /\ timer_tasks = BagAdd(<<>>, RoomCode)
    /\ timers = <<>>
    /\ last = Step("TIMER_FIRE", NoWs,
                   [code |-> RoomCode, current_phase |-> "result",
                    current_turn |-> RoundTurn - 1])
    /\ sent = _broadcast_game_state(NoMessages, RoundRoom, LobbyManager, RoomCode)

RoundWs == PlayerWs \ {MIN_CONNECTED_TEAMS}

RoundCells == {"cell-0-3"}

RoundAmounts == {7}

NextRound ==
    \/ HandleHostSkip(HostWs)
    \/ \E ws \in RoundWs, cell_id \in RoundCells, amount \in RoundAmounts :
          HandlePlaceResource(ws, cell_id, amount)
    \/ \E ws \in RoundWs : InPhase("action") /\ HandleSubmitTurn(ws)
    \/ \E ws \in RoundWs : SubmitResume(ws)
    \/ \E ws \in PlayerWs \ RoundWs : InPhase("action") /\ Disconnect(ws)
    \/ \E code \in DOMAIN timer_tasks : TimerStart(code)
    \/ \E timer \in DOMAIN timers : TimerFire(timer)

SpecRound == InitRound /\ [][NextRound]_vars

\* SpecStart: the lobby and the start of the game.  Players leave; while the
\* game has not started a player whose team has not submitted may send
\* SUBMIT_TURN; the host sends HOST_START and HOST_END at any time; the
\* timers drive the phases of the started game.
TeamOfWs(ws) == room_store.teams[FindTeam(room_store.teams, Info(ws).team_id, 1)]

NextStart ==
    \/ HandleHostStart(HostWs)
    \/ HandleHostEnd(HostWs)
    \/ \E ws \in PlayerWs : Disconnect(ws)
    \/ \E ws \in PlayerWs :
          /\ room_store.game_state = NoGame
          /\ IF ws \in LiveWs THEN ~TeamOfWs(ws).has_submitted ELSE FALSE
          /\ HandleSubmitTurn(ws)
    \/ \E ws \in PlayerWs : SubmitResume(ws)
    \/ \E code \in DOMAIN timer_tasks : TimerStart(code)
    \/ \E timer \in DOMAIN timers : TimerFire(timer)

SpecStart == Init /\ [][NextStart]_vars

\* SpecReject: the placements of the player of team 1, who may also submit
\* during the action phase; the players of teams 2 and 3 stay connected and
\* never submit, so a submission ends no phase; the timers drive the phases
RejectWs == {1}

RejectCells == {"cell-0-3"}

RejectAmounts == {-1, 7, 15}

NextReject ==
    \/ HandleHostStart(HostWs)
    \/ \E ws \in RejectWs, cell_id \in RejectCells, amount \in RejectAmounts :
          HandlePlaceResource(ws, cell_id, amount)
    \/ \E ws \in RejectWs : InPhase("action") /\ HandleSubmitTurn(ws)
    \/ \E ws \in RejectWs : SubmitResume(ws)
    \/ \E code \in DOMAIN timer_tasks : TimerStart(code)
    \/ \E timer \in DOMAIN timers : TimerFire(timer)

SpecReject == Init /\ [][NextReject]_vars

\* SpecCell: the player of team 1 names a cell of the board and a cell id
\* that is neither on the board nor the project; the timers drive the phases
CellWs == {1}

CellIds == {"cell-0-3", "cell-9-9"}

CellAmounts == {0, 7}

NextCell ==
    \/ HandleHostStart(HostWs)
    \/ \E ws \in CellWs, cell_id \in CellIds, amount \in CellAmounts :
          HandlePlaceResource(ws, cell_id, amount)
    \/ \E code \in DOMAIN timer_tasks : TimerStart(code)
    \/ \E timer \in DOMAIN timers : TimerFire(timer)

SpecCell == Init /\ [][NextCell]_vars

\* SpecRoles: the lobby and the game it starts, with one more connection that
\* never authenticates (its AUTH messages fail).  The host starts and pauses
\* the game and the timers drive the phases; every other message comes from
\* a connection whose role does not allow it.
UnauthWs == NUM_TEAMS + 3

RoleWs == {1, HostWs, SpectatorWs, UnauthWs}

RoleCells == {"cell-0-3"}

RoleAmounts == {7}

RoleAuthRoles == {"host", "player"}

InitRoles ==
    /\ room_store = LobbyRoom
    /\ manager = connect(LobbyManager, UnauthWs, RoomCode)
    /\ pc = [ws \in {HostWs, SpectatorWs, UnauthWs} \cup PlayerWs |-> "idle"]
    /\ timer_tasks = <<>>
    /\ timers = <<>>
    /\ last = Step("init", NoWs, NoTimer)
    /\ sent = NoMessages

NextRoles ==
    \/ \E ws \in RoleWs : HandleHostStart(ws)
    \/ \E ws \in RoleWs : HandleHostPause(ws)
    \/ \E ws \in RoleWs \ {HostWs} : HandleHostResume(ws)
    \/ \E ws \in RoleWs \ {HostWs} : HandleHostSkip(ws)
    \/ \E ws \in RoleWs \ {HostWs} : HandleHostEnd(ws)
    \/ \E ws \in RoleWs \ PlayerWs, cell_id \in RoleCells, amount \in RoleAmounts :
          HandlePlaceResource(ws, cell_id, amount)
    \/ \E ws \in RoleWs \ PlayerWs : HandleSubmitTurn(ws)
    \/ \E role \in RoleAuthRoles, token \in AuthTokens, team_id \in AuthTeams :
          HandleAuth(UnauthWs, role, token, team_id)
    \/ \E code \in DOMAIN timer_tasks : TimerStart(code)
    \/ \E timer \in DOMAIN timers : TimerFire(timer)

SpecRoles == InitRoles /\ [][NextRoles]_vars

\* SpecCast: the broadcasts of the lobby.  Peers go away (Close) before their
\* endpoint tasks run the disconnection; a team leaving is broadcast to the
\* room, the host's HOST_PAUSE broadcasts the state through the filter, and
\* the connection that is not authenticated takes the place of team 1 once
\* it is free, which is broadcast to the others.
CastWs == {1, 2, SpectatorWs, UnauthWs}

CastRoles == {"player"}

NextCast ==
    \/ \E ws \in CastWs : Close(ws)
    \/ \E ws \in CastWs : Disconnect(ws)
    \/ HandleHostPause(HostWs)
    \/ \E role \in CastRoles, token \in AuthTokens, team_id \in RegTeams :
          HandleAuth(UnauthWs, role, token, team_id)

SpecCast == InitRoles /\ [][NextCast]_vars

\* SpecRooms: the room of the store is replaced by a new one (POST /rooms)
\* while websockets opened for the old code stay open; websockets connect to
\* the room in the store, send one AUTH each, as host with the host secret or
\* as team 1 of a room with its session token, and disconnect
NewRoomCode == RoomCode + 1

RoomCodes == {RoomCode, NewRoomCode}

\* the first AUTH of a connection
FirstAuth(ws, role, token, team_id) ==
    /\ ws \in LiveWs
    /\ ~Info(ws).authenticated
    /\ HandleAuth(ws, role, token, team_id)

\* RoomService.create_room: the room in the store is deleted and a room with
\* a code, team ids and tokens never used before takes its place
CreateRoom(code) ==
    /\ last' = StepIn("CREATE_ROOM", NoWs, [code |-> code])
    /\ room_store.code < code
    /\ room_store' = create_room(code)
    /\ sent' = NoMessages
    /\ UNCHANGED <<manager, pc, timer_tasks, timers>>

NextRooms ==
    \/ CreateRoom(NewRoomCode)
    \/ \E ws \in RegWs, code \in RoomCodes : Connect(ws, code)
    \/ \E ws \in RegWs : FirstAuth(ws, "host", HOST_SECRET, NoTeam)
    \/ \E ws \in RegWs, code \in RoomCodes :
          FirstAuth(ws, "player", SessionToken(code, 1), TeamId(code, 1))
    \/ \E ws \in RegWs : Disconnect(ws)

SpecRooms == InitReg /\ [][NextRooms]_vars

\* SpecFilter: broadcasts of the state through the filter, in every order of
\* the connections of the room, in the lobby and up to the action phase of
\* the first turn, in which team 1 places resources; teams 2 and 3 may leave
FilterWs == {2, 3}

FilterCells == {"cell-0-3"}

FilterAmounts == {7}

\* the orders the dict _connections[code] can hold its keys in
Orders(wss) ==
    {order \in [1..Cardinality(wss) -> wss] :
        \A i, j \in 1..Cardinality(wss) : order[i] = order[j] => i = j}

\* the step of a broadcast whose loop left `loop`
Broadcasted(order, loop) ==
    /\ last' = StepIn("BROADCAST_STATE", NoWs, [order |-> order, message |-> loop.message])
    /\ sent' = loop.out
    /\ UNCHANGED <<room_store, manager, pc, timer_tasks, timers>>

\* WSHandlers._broadcast_game_state, the loop of broadcast_to_room taken in
\* the given order of the connections
BroadcastGameState(code, order) ==
    /\ get_by_code(room_store, code) # NoRoom
    /\ Broadcasted(order,
                   BroadcastLoop(NoMessages, manager, code,
                                 [type |-> "GAME_STATE", data |-> get_by_code(room_store, code)],
                                 order))

NextFilter ==
    \/ HandleHostStart(HostWs)
    \/ \E cell_id \in FilterCells, amount \in FilterAmounts :
          HandlePlaceResource(1, cell_id, amount)
    \/ \E ws \in FilterWs : Disconnect(ws)
    \/ \E order \in Orders(DOMAIN manager.connections[RoomCode]) :
          BroadcastGameState(RoomCode, order)
    \/ \E code \in DOMAIN timer_tasks : InPhase("event") /\ TimerStart(code)
    \/ \E timer \in DOMAIN timers : TimerFire(timer)

SpecFilter == Init /\ [][NextFilter]_vars

\* SpecRank: a first turn in which each of the three players may put 5 or 7
\* on a synergy cell (9 or 12 points), ended by the host at any moment
RankCells == {"cell-0-1"}

RankAmounts == {5, 7}

NextRank ==
    \/ HandleHostStart(HostWs)
    \/ \E ws \in PlayerWs, cell_id \in RankCells, amount \in RankAmounts :
          HandlePlaceResource(ws, cell_id, amount)
    \/ room_store.status # "finished" /\ HandleHostEnd(HostWs)
    \/ \E code \in DOMAIN timer_tasks : TimerStart(code)
    \/ \E timer \in DOMAIN timers :
          room_store.game_state.current_phase \in {"event", "action"} /\ TimerFire(timer)

SpecRank == Init /\ [][NextRank]_vars

\* SpecProject: a first turn in which each of the three players may put 6, 7
\* or 10 on the project (thresholds: 20 in total from 3 teams) and team 1 may
\* put 4 on a synergy cell (7.2 points), up to the resolution
ProjectCells == {PROJECT_CELL_ID}

BoundaryAmounts == {6, 7, 10}

SideWs == {1}

SideCells == {"cell-0-1"}

SideAmounts == {4}

NextProject ==
    \/ HandleHostStart(HostWs)
    \/ \E ws \in PlayerWs, cell_id \in ProjectCells, amount \in BoundaryAmounts :
          HandlePlaceResource(ws, cell_id, amount)
    \/ \E ws \in SideWs, cell_id \in SideCells, amount \in SideAmounts :
          HandlePlaceResource(ws, cell_id, amount)
    \/ \E code \in DOMAIN timer_tasks : TimerStart(code)
    \/ \E timer \in DOMAIN timers :
          room_store.game_state.current_phase \in {"event", "action"} /\ TimerFire(timer)

SpecProject == Init /\ [][NextProject]_vars

\* SpecCells: a first turn in which each of the three players may put 5 or 7
\* on a competitive cell and 3 on a cooperation cell, up to the resolution
CompetitiveCells == {"cell-0-3"}

CompetitiveAmounts == {5, 7}

CooperationCells == {"cell-0-0"}

CooperationAmounts == {3}

NextCells ==
    \/ HandleHostStart(HostWs)
    \/ \E ws \in PlayerWs, cell_id \in CompetitiveCells, amount \in CompetitiveAmounts :
          HandlePlaceResource(ws, cell_id, amount)
    \/ \E ws \in PlayerWs, cell_id \in CooperationCells, amount \in CooperationAmounts :
          HandlePlaceResource(ws, cell_id, amount)
    \/ \E code \in DOMAIN timer_tasks : TimerStart(code)
    \/ \E timer \in DOMAIN timers :
          room_store.game_state.current_phase \in {"event", "action"} /\ TimerFire(timer)

SpecCells == Init /\ [][NextCells]_vars

\* SpecCommute: the action phase of the first turn, in which the players of
\* teams 1 and 2 put 0 or 8 on the project and on a competitive cell and
\* submit; team 3 stays connected and does not submit, so the phase lasts
CommuteWs == {1, 2}

CommuteCells == {PROJECT_CELL_ID, "cell-0-3"}

CommuteAmounts == {0, 8}

NextCommute ==
    \/ HandleHostStart(HostWs)
    \/ \E ws \in CommuteWs, cell_id \in CommuteCells, amount \in CommuteAmounts :
          InPhase("action") /\ HandlePlaceResource(ws, cell_id, amount)
    \/ \E ws \in CommuteWs : InPhase("action") /\ HandleSubmitTurn(ws)
    \/ \E ws \in CommuteWs : SubmitResume(ws)
    \/ \E code \in DOMAIN timer_tasks : InPhase("event") /\ TimerStart(code)
    \/ \E timer \in DOMAIN timers : TimerFire(timer)

SpecCommute == Init /\ [][NextCommute]_vars

\* SpecReconnect: the action phase of the first turn.  Teams 1 and 2 may put
\* 7 on a competitive cell and submit; the player of team 2 may disconnect
\* and come back on a new websocket with the same session token; the player
\* of team 3 may disconnect.
ReconnectWs == {2, UnauthWs}

ReconnectCells == {"cell-0-3"}

ReconnectAmounts == {7}

NextReconnect ==
    \/ HandleHostStart(HostWs)
    \/ \E ws \in {1} \cup ReconnectWs, cell_id \in ReconnectCells, amount \in ReconnectAmounts :
          InPhase("action") /\ HandlePlaceResource(ws, cell_id, amount)
    \/ \E ws \in {1} \cup ReconnectWs : InPhase("action") /\ HandleSubmitTurn(ws)
    \/ \E ws \in {1} \cup ReconnectWs : SubmitResume(ws)
    \/ \E ws \in {3} \cup ReconnectWs : InPhase("action") /\ Disconnect(ws)
    \/ \E ws \in ReconnectWs : InPhase("action") /\ Connect(ws, RoomCode)
    \/ \E ws \in ReconnectWs :
          InPhase("action")
          /\ HandleAuth(ws, "player", SessionToken(RoomCode, 2),
                        TeamId(RoomCode, 2))
    \/ \E code \in DOMAIN timer_tasks : InPhase("event") /\ TimerStart(code)
    \/ \E timer \in DOMAIN timers : TimerFire(timer)

SpecReconnect == Init /\ [][NextReconnect]_vars

\* SpecScoring: the Scoring Engine called on a placements snapshot.  The
\* snapshot is a list of up to three entries of teams 1..3 in list order, with
\* amounts 0, 7 or 10 (0 is an entry the engine has to drop); it is on the
\* first cell of each type and on the project of a game in its first turn.
ScoredAmounts == {0, 7, 10}

ScoredCells == {"cell-0-0", "cell-0-1", "cell-0-3", "cell-1-0"}

Snapshots ==
    UNION {[1..n -> ScoredAmounts] : n \in 0..MIN_CONNECTED_TEAMS}

SnapshotRoom(amounts) ==
    LET rm == start_game(LobbyRoom).room
        entries == [k \in 1..Len(amounts) |->
                       [team_id |-> TeamId(RoomCode, k), amount |-> amounts[k]]]
    IN  [rm EXCEPT
            !.game_state.current_phase = "action",
            !.game_state.board =
                [i \in 1..Len(rm.game_state.board) |->
                    IF rm.game_state.board[i].id \in ScoredCells
                    THEN [rm.game_state.board[i] EXCEPT !.placements = entries]
                    ELSE rm.game_state.board[i]],
            !.game_state.project_status.contributing_teams = entries,
            !.game_state.project_status.total_contributed = SumAmounts(entries)]

InitScoring ==
    /\ pc = [ws \in {HostWs, SpectatorWs} \cup PlayerWs |-> "idle"]
    /\ room_store \in {SnapshotRoom(amounts) : amounts \in Snapshots}
    /\ manager = LobbyManager
    /\ timer_tasks = <<>>
    /\ timers = <<>>
    /\ last = Step("init", NoWs, NoTimer)
    /\ sent = NoMessages

\* ScoringService.calculate_cell_scores(cell) on the cell at position i
CalculateCellScores(i) ==
    LET run == calculate_cell_scores_run(room_store.game_state.board[i])
    IN  /\ last' = StepIn("calculate_cell_scores", NoWs,
                          [target |-> room_store.game_state.board[i].id,
                           returned |-> run.returned])
        /\ room_store' = [room_store EXCEPT !.game_state.board[i] = run.cell]
        /\ sent' = NoMessages
        /\ UNCHANGED <<manager, pc, timer_tasks, timers>>

\* ScoringService.calculate_project_result on the project's contributions
CalculateProjectResult ==
    LET status == room_store.game_state.project_status
        run == calculate_project_result_run(status.contributing_teams,
                                            status.min_total, status.min_teams)
    IN  /\ last' = StepIn("calculate_project_result", NoWs,
                          [target |-> PROJECT_CELL_ID, returned |-> run.returned])
        /\ room_store' = [room_store EXCEPT
               !.game_state.project_status.contributing_teams = run.contributions]
        /\ sent' = NoMessages
        /\ UNCHANGED <<manager, pc, timer_tasks, timers>>

NextScoring ==
    \/ \E i \in 1..Len(BOARD_CELLS) :
          BOARD_CELLS[i].id \in ScoredCells /\ CalculateCellScores(i)
    \/ CalculateProjectResult

SpecScoring == InitScoring /\ [][NextScoring]_vars

\* SpecSubmit: the player of team 1, the only connected team, sends
\* SUBMIT_TURN in any phase of the started game; the handler is resumed before
\* any timer task runs, so it resumes in the phase in which the message was
\* received; the timers drive the phases.
NextSubmit ==
    \/ \E ws \in SubmitWs : HandleSubmitTurn(ws)
    \/ \E ws \in SubmitWs : SubmitResume(ws)
    \/ \E code \in DOMAIN timer_tasks :
          (\A ws \in SubmitWs : pc[ws] = "idle") /\ TimerStart(code)
    \/ \E timer \in DOMAIN timers :
          (\A ws \in SubmitWs : pc[ws] = "idle") /\ TimerFire(timer)

SpecSubmit == InitStarted /\ [][NextSubmit]_vars

\* SpecLive: the started game of SpecPhase in which no team ever submits.  The
\* host pauses, resumes and skips; the event loop runs every task it has
\* created and every sleep ends: weak fairness of the start of a timer task
\* and of the waking of a timer.  The fairness is stated on what the two
\* steps record in `last` and remove from their bag: among the steps of
\* NextLive these are the steps of TimerStart and of TimerFire, which are
\* enabled whenever the bag is not empty.
TimerTaskRuns ==
    \E code \in DOMAIN timer_tasks :
        /\ last' = Step("TIMER_START", NoWs, NoTimer)
        /\ timer_tasks' = BagRemove(timer_tasks, code)

TimerWakes ==
    \E timer \in DOMAIN timers :
        /\ last' = Step("TIMER_FIRE", NoWs, timer)
        /\ timers' = BagRemove(timers, timer)

NextLive ==
    \/ HandleHostPause(HostWs)
    \/ HandleHostResume(HostWs)
    \/ HandleHostSkip(HostWs)
    \/ \E code \in DOMAIN timer_tasks : TimerStart(code)
    \/ \E timer \in DOMAIN timers : TimerFire(timer)

SpecLive ==
    /\ InitStarted
    /\ [][NextLive]_vars
    /\ WF_<<last, timer_tasks>>(TimerTaskRuns)
    /\ WF_<<last, timers>>(TimerWakes)

\* SpecResume: the started game of SpecPhase in which the host pauses a
\* playing session and resumes a paused one, and nobody skips or submits: a
\* HOST_RESUME always follows a HOST_PAUSE of the same phase, since a timer
\* that wakes in between does not advance.
NextResume ==
    \/ room_store.status = "playing" /\ HandleHostPause(HostWs)
    \/ room_store.status = "paused" /\ HandleHostResume(HostWs)
    \/ \E code \in DOMAIN timer_tasks : TimerStart(code)
    \/ \E timer \in DOMAIN timers : TimerFire(timer)

SpecResume == InitStarted /\ [][NextResume]_vars

(***************************************************************************)
(* Properties                                                              *)
(***************************************************************************)
PhaseRank(phase) ==
    CASE phase = "event" -> 1
      [] phase = "action" -> 2
      [] phase = "resolution" -> 3
      [] phase = "result" -> 4

\* the place of a (turn, phase) in the order of the phases of a game
PhaseOrd(gs) == gs.current_turn * 4 + PhaseRank(gs.current_phase)

\* C1: in a started session a step leaves turn and phase alone, or moves the
\* phase to the next one of event, action, resolution, result within the
\* turn, or moves from result to event with the turn counter raised by one.
C1_PhaseOrder ==
    [][room_store.game_state # NoGame =>
          /\ room_store'.game_state # NoGame
          /\ LET gs == room_store.game_state
                 after == room_store'.game_state
             IN  \/ /\ after.current_phase = gs.current_phase
                    /\ after.current_turn = gs.current_turn
                 \/ /\ gs.current_phase # "result"
                    /\ PhaseRank(after.current_phase) = PhaseRank(gs.current_phase) + 1
                    /\ after.current_turn = gs.current_turn
                 \/ /\ gs.current_phase = "result"
                    /\ after.current_phase = "event"
                    /\ after.current_turn = gs.current_turn + 1]_vars

\* a submission has just moved the second turn from action to resolution
C1_SecondTurnResolved ==
    /\ room_store.game_state # NoGame
    /\ room_store.game_state.current_turn = 2
    /\ room_store.game_state.current_phase = "resolution"
    /\ last.op = "SUBMIT_RESUME"

\* C2: a SUBMIT_TURN handler that set its flag during an action phase and
\* resumes after the TEAM_SUBMITTED broadcast changes the session only by the
\* transition out of the action phase.  (In SpecPhase every SUBMIT_TURN is
\* sent during an action phase.)
C2_SubmitAdvancesOnlyAction ==
    [][(last'.op = "SUBMIT_RESUME" /\ room_store' # room_store) =>
          /\ room_store.game_state # NoGame
          /\ room_store.game_state.current_phase = "action"]_vars

\* C3: a timer that wakes changes the session, creates a timer or sends a
\* message only if the session is still in the turn and phase the timer
\* captured, is not paused and has status playing; and no step takes a started
\* session back to an earlier (turn, phase), so that each (turn, phase) is left
\* at most once, by a timer or otherwise.
C3_StaleTimerIsNoOp ==
    [][/\ (/\ last'.op = "TIMER_FIRE"
           /\ \/ room_store' # room_store
              \/ timer_tasks' # timer_tasks
              \/ sent' # NoMessages)
          => /\ room_store.game_state # NoGame
             /\ room_store.game_state.current_turn = last'.timer.current_turn
             /\ room_store.game_state.current_phase = last'.timer.current_phase
             /\ ~room_store.game_state.is_paused
             /\ room_store.status = "playing"
       /\ room_store.game_state # NoGame
          => /\ room_store'.game_state # NoGame
             /\ PhaseOrd(room_store.game_state) <= PhaseOrd(room_store'.game_state)
       /\ (/\ last'.op = "TIMER_FIRE"
           /\ room_store.game_state # NoGame
           /\ PhaseOrd(room_store.game_state) < PhaseOrd(room_store'.game_state))
          => PhaseOrd(room_store'.game_state) = PhaseOrd(room_store.game_state) + 1]_vars

\* a timer that captured the event phase has woken in the resolution phase of
\* the same turn
C3_StaleTimerFired ==
    /\ last.op = "TIMER_FIRE"
    /\ last.timer.current_phase = "event"
    /\ room_store.game_state # NoGame
    /\ room_store.game_state.current_phase = "resolution"
    /\ room_store.game_state.current_turn = last.timer.current_turn

\* the live connections authenticated as the player of a team, and as host
PlayersAs(team_id) ==
    {ws \in LiveWs : /\ Info(ws).authenticated
                     /\ Info(ws).role = "player"
                     /\ Info(ws).team_id = team_id}

Hosts == {ws \in LiveWs : Info(ws).authenticated /\ Info(ws).role = "host"}

\* the AUTH just handled was answered by AUTH_FAILED with this reason only,
\* and changed neither the registry nor the room
Rejected(reason) ==
    /\ sent' = SendTo(NoMessages, last'.ws, [type |-> "AUTH_FAILED", reason |-> reason])
    /\ manager' = manager
    /\ room_store' = room_store

\* C4: at most one live connection is authenticated as the player of a team,
\* and it is the one the registry binds to the team; at most one is
\* authenticated as host, and it is the bound one; an AUTH with a valid
\* credential for a team (for the host role) bound to a live connection is
\* answered by AUTH_FAILED 'Team already connected' ('Host already connected')
\* and changes nothing.
C4_OneConnectionPerParty ==
    /\ [](/\ \A team_id \in RegTeams :
                /\ Cardinality(PlayersAs(team_id)) <= 1
                /\ \A ws \in PlayersAs(team_id) :
                      /\ team_id \in DOMAIN manager.team_connections
                      /\ manager.team_connections[team_id] = ws
          /\ Cardinality(Hosts) <= 1
          /\ \A ws \in Hosts : manager.host_connection = ws)
    /\ [][last'.op = "AUTH" =>
             /\ (/\ last'.input.role = "player"
                 /\ last'.input.team_id # NoTeam
                 /\ validate_session_token(room_store, last'.input.team_id,
                                           last'.input.token)
                 /\ last'.input.team_id \in DOMAIN manager.team_connections
                 /\ manager.team_connections[last'.input.team_id] \in LiveWs)
                => Rejected("Team already connected")
             /\ (/\ last'.input.role = "host"
                 /\ last'.input.token = HOST_SECRET
                 /\ manager.host_connection \in LiveWs)
                => Rejected("Host already connected")]_vars

\* a second connection has presented the valid credential of a team whose
\* player is connected, and was refused
C4_DuplicateRefused ==
    /\ last.op = "AUTH"
    /\ last.input.role = "player"
    /\ last.ws \in DOMAIN sent
    /\ sent[last.ws] = <<[type |-> "AUTH_FAILED", reason |-> "Team already connected"]>>
    /\ \E ws \in PlayersAs(last.input.team_id) : ws # last.ws

\* a websocket that has not been connected yet
FreshWs == MaxWs + 1

\* whether a new connection presenting the valid credential passes authenticate
CanAuthenticate(role, team_id) ==
    authenticate(connect(manager, FreshWs, RoomCode), FreshWs, RoomCode, role, team_id).success

\* C5: whenever no live connection is authenticated as the player of a team
\* or holds the team's binding, a new connection presenting the team's
\* credential authenticates; the same for the host.
C5_BindingReleased ==
    /\ \A team_id \in RegTeams :
          (/\ PlayersAs(team_id) = {}
           /\ \A ws \in LiveWs :
                 ~(/\ team_id \in DOMAIN manager.team_connections
                   /\ manager.team_connections[team_id] = ws))
          => CanAuthenticate("player", team_id)
    /\ (Hosts = {} /\ manager.host_connection \notin LiveWs)
       => CanAuthenticate("host", NoTeam)

\* a message that carries the host's credential or a team's session credential
HasCredential(message) ==
    /\ "data" \in DOMAIN message
    /\ message.type = "GAME_STATE"
    /\ \/ "host_token" \in DOMAIN message.data
       \/ \E i \in 1..Len(message.data.teams) :
             "session_token" \in DOMAIN message.data.teams[i]

\* C6: no message sent to a connection carries host_token or a session_token.
C6_NoCredentialSent ==
    \A ws \in DOMAIN sent : \A i \in 1..Len(sent[ws]) : ~HasCredential(sent[ws][i])

\* the GAME_STATE view of the room a connection is sent
ViewOf(store, conn_info) ==
    filter_game_state([type |-> "GAME_STATE", data |-> store], conn_info)

\* C7: an accepted PLACE_RESOURCE changes only the placements and the
\* remaining resources of the placing team (and what the engine derives from
\* them), so it leaves the view of every spectator and of every player of
\* another team as it was.
C7_ViewUnchangedByPlacement ==
    [][(last'.op = "PLACE_RESOURCE" /\ room_store' # room_store) =>
          \A ws \in LiveWs \ {last'.ws} :
              Info(ws).role \in {"spectator", "player"}
              => ViewOf(room_store', Info(ws)) = ViewOf(room_store, Info(ws))]_vars

C10_IndicesInRange ==
    room_store.game_state # NoGame =>
        \A k \in IndexNames :
            room_store.game_state.national_indices[k] \in 0..INDEX_MAXIMUM

\* after a project succeeded in an earlier turn, a failure penalty has taken
\* the economy index to the floor
C10_PenaltyClampedAfterReward ==
    /\ room_store.game_state # NoGame
    /\ room_store.game_state.current_phase = "resolution"
    /\ room_store.game_state.national_indices["economy"] = 0
    /\ room_store.teams[1].score > 0

\* a step in which advance_phase ran: a timer that went on to _advance_phase, a
\* HOST_SKIP, or a resumed SUBMIT_TURN handler that found every team submitted
Advanced ==
    /\ last'.op \in {"TIMER_FIRE", "HOST_SKIP", "SUBMIT_RESUME"}
    /\ room_store' # room_store

\* C11: a step in which advance_phase ran turns the status to "finished" only
\* from the result phase; from the result phase it leaves the session
\* finished, in the same turn and phase, exactly when an index is <= 0 once
\* the maintenance is paid or the turn counter has reached MAX_TURNS, and
\* otherwise moves to the event phase of the next turn; the turn counter of a
\* started session is always in 1..MAX_TURNS.
C11_FinishedOnlyFromResult ==
    /\ [](room_store.game_state # NoGame =>
            room_store.game_state.current_turn \in 1..MAX_TURNS)
    /\ [][(room_store.game_state # NoGame /\ Advanced) =>
            LET gs == room_store.game_state
                after == room_store'.game_state
                over == \/ \E k \in IndexNames : after.national_indices[k] <= 0
                        \/ gs.current_turn >= MAX_TURNS
            IN  /\ (room_store.status # "finished" /\ room_store'.status = "finished")
                      => gs.current_phase = "result"
                /\ gs.current_phase = "result" =>
                      /\ \A k \in IndexNames :
                            after.national_indices[k] =
                                Max2(0, gs.national_indices[k] - MAINTENANCE_COST[k])
                      /\ IF over
                         THEN /\ room_store'.status = "finished"
                              /\ after.current_phase = "result"
                              /\ after.current_turn = gs.current_turn
                         ELSE /\ room_store'.status = room_store.status
                              /\ after.current_phase = "event"
                              /\ after.current_turn = gs.current_turn + 1]_vars

\* the game ended at the turn limit with every index above 0
C11_EndedAtTurnLimit ==
    /\ room_store.status = "finished"
    /\ room_store.game_state # NoGame
    /\ room_store.game_state.current_turn = MAX_TURNS
    /\ \A k \in IndexNames : room_store.game_state.national_indices[k] > 0

IsTurnResult(message) == message.type = "TURN_RESULT"

\* C12: a step that takes a started session out of the action phase leaves it
\* in the resolution phase of the same turn with every team marked submitted,
\* and sends every authenticated connection one TURN_RESULT that gives, for
\* each team of the room, the points the step added to its score and its new
\* total; scores change in no other step; a step in which advance_phase ran
\* in the resolution phase leads to the result phase; a PLACE_RESOURCE outside
\* the action phase changes nothing in the session.
C12_ForcedResolution ==
    [][room_store.game_state # NoGame =>
        LET gs == room_store.game_state
            after == room_store'.game_state
            teams == room_store.teams
            teams_after == room_store'.teams
            conns == manager.connections[RoomCode]
        IN  /\ (gs.current_phase = "action" /\ after.current_phase # "action") =>
                  /\ after.current_phase = "resolution"
                  /\ after.current_turn = gs.current_turn
                  /\ \A i \in 1..Len(teams_after) : teams_after[i].has_submitted
                  /\ \A w \in DOMAIN conns : conns[w].authenticated =>
                        /\ w \in DOMAIN sent'
                        /\ Len(SelectSeq(sent'[w], IsTurnResult)) = 1
                        /\ \A m \in 1..Len(sent'[w]) : IsTurnResult(sent'[w][m]) =>
                              /\ sent'[w][m].data.turn = gs.current_turn
                              /\ Len(sent'[w][m].data.team_scores) = Len(teams)
                              /\ \A i \in 1..Len(teams) :
                                    sent'[w][m].data.team_scores[i] =
                                        [team_id |-> teams[i].id,
                                         turn_score |-> teams_after[i].score - teams[i].score,
                                         total_score |-> teams_after[i].score]
            /\ (\E i \in 1..Len(teams) : teams_after[i].score # teams[i].score) =>
                  gs.current_phase = "action" /\ after.current_phase = "resolution"
            /\ (Advanced /\ gs.current_phase = "resolution") =>
                  after.current_phase = "result"
            /\ (last'.op = "PLACE_RESOURCE" /\ gs.current_phase # "action") =>
                  room_store' = room_store]_vars

\* the host's skip ended an action phase in which team 3 had not submitted,
\* and teams 1 and 2 scored on the cell they shared
C12_SkipResolvedRound ==
    /\ last.op = "HOST_SKIP"
    /\ room_store.game_state.current_phase = "resolution"
    /\ room_store.teams[1].score > 0
    /\ room_store.teams[2].score > 0
    /\ room_store.teams[MIN_CONNECTED_TEAMS].is_connected

\* C13: when a SUBMIT_TURN handler resumes in a started session, it goes on
\* to advance the phase and broadcast if and only if every connected team has
\* submitted, whatever the flags of the teams that are not connected, and
\* otherwise changes nothing; if every connected team has submitted in the
\* action phase while a disconnected team has not, the session moves to the
\* resolution phase.
C13_ConnectedTeamsDecide ==
    [][(last'.op = "SUBMIT_RESUME" /\ room_store.game_state # NoGame) =>
        LET teams == room_store.teams
            connected_submitted ==
                \A i \in 1..Len(teams) : teams[i].is_connected => teams[i].has_submitted
        IN  /\ connected_submitted <=> sent' # NoMessages
            /\ ~connected_submitted => room_store' = room_store
            /\ (/\ connected_submitted
                /\ room_store.game_state.current_phase = "action"
                /\ \E i \in 1..Len(teams) :
                      ~teams[i].is_connected /\ ~teams[i].has_submitted)
                 => room_store'.game_state.current_phase = "resolution"]_vars

\* team 3 left without submitting, and the submissions of teams 1 and 2
\* ended the action phase: the turn result went out
C13_SubmissionsEndedAction ==
    /\ last.op = "SUBMIT_RESUME"
    /\ room_store.game_state.current_phase = "resolution"
    /\ ~room_store.teams[MIN_CONNECTED_TEAMS].is_connected
    /\ HostWs \in DOMAIN sent
    /\ \E m \in 1..Len(sent[HostWs]) : IsTurnResult(sent[HostWs][m])

\* C14: a HOST_START from the host starts the session if and only if its
\* status is "waiting" and at least three teams are connected.  If it does, the
\* session is playing in the event phase of turn 1 with the starting indices,
\* a pending project with the thresholds of turn 1, and every team at
\* RESOURCES_PER_TURN resources, without placements, not submitted, its other
\* fields kept.  If it does not, the host gets a START_FAILED error, and the
\* session and the timers are unchanged.  A game state appears only by such a
\* start, and the status never returns to "waiting".
C14_StartOnlyFromLobby ==
    /\ [][last'.op = "HOST_START" =>
            LET rm == room_store
                started == room_store'
                connected == {i \in 1..Len(rm.teams) : rm.teams[i].is_connected}
            IN  IF rm.status = "waiting" /\ Cardinality(connected) >= 3
                THEN /\ started.status = "playing"
                     /\ started.game_state.current_turn = 1
                     /\ started.game_state.current_phase = "event"
                     /\ ~started.game_state.is_paused
                     /\ started.game_state.national_indices = STARTING_INDICES
                     /\ started.game_state.project_status =
                            [total_contributed |-> 0, contributing_teams |-> <<>>,
                             min_total |-> TURN_EVENTS[1].min_total,
                             min_teams |-> TURN_EVENTS[1].min_teams,
                             status |-> "pending"]
                     /\ \A i \in 1..Len(started.game_state.board) :
                            started.game_state.board[i].placements = <<>>
                     /\ started.teams =
                            [i \in 1..Len(rm.teams) |->
                                [rm.teams[i] EXCEPT !.resources = RESOURCES_PER_TURN,
                                                    !.placements = <<>>,
                                                    !.has_submitted = FALSE]]
                     /\ timer_tasks' # timer_tasks
                ELSE /\ started = rm
                     /\ UNCHANGED <<timer_tasks, timers>>
                     /\ DOMAIN sent' = {last'.ws}
                     /\ Len(sent'[last'.ws]) = 1
                     /\ sent'[last'.ws][1].type = "ERROR"
                     /\ sent'[last'.ws][1].code = "START_FAILED"]_vars
    /\ [][(room_store.game_state = NoGame /\ room_store'.game_state # NoGame) =>
            (last'.op = "HOST_START" /\ room_store.status = "waiting")]_vars
    /\ [][room_store.status # "waiting" => room_store'.status # "waiting"]_vars

\* a second HOST_START, sent in the action phase of the started game, was
\* refused
C14_RestartRefused ==
    /\ last.op = "HOST_START"
    /\ room_store.status = "playing"
    /\ room_store.game_state.current_phase = "action"
    /\ HostWs \in DOMAIN sent
    /\ sent[HostWs][1].type = "ERROR"
    /\ sent[HostWs][1].message = "Game already started"

\* C17: when the resumed handler of a SUBMIT_TURN answers with an ERROR in a
\* session that has not started, the submitted flag of its team is as it was
\* before the message: not set.  (In SpecStart a SUBMIT_TURN is sent only for
\* a team whose flag is not set, and nothing else sets a flag in the lobby.)
C17_ErrorLeavesFlagUnset ==
    (/\ last.op = "SUBMIT_RESUME"
     /\ room_store.game_state = NoGame
     /\ last.ws \in DOMAIN sent
     /\ \E m \in 1..Len(sent[last.ws]) : sent[last.ws][m].type = "ERROR")
        => ~TeamOfWs(last.ws).has_submitted

\* the amount a team holds on a cell, 0 if none
HeldOn(team, cell_id) ==
    LET mine == SelectSeq(team.placements, LAMBDA p : p.cell_id = cell_id)
    IN  IF mine = <<>> THEN 0 ELSE mine[1].amount

\* C15: a PLACE_RESOURCE of a player that comes before the start, outside the
\* action phase, after the team has submitted, with a negative amount, or
\* that asks for more than the team has left, is answered with one ERROR to
\* the sender alone and leaves the room as it was.
C15_RejectedPlacementNoEffect ==
    [][last'.op = "PLACE_RESOURCE" =>
        LET ws == last'.ws
            team == TeamOfWs(ws)
            amount == last'.input.amount
            rejected ==
                IF room_store.game_state = NoGame THEN TRUE
                ELSE \/ room_store.game_state.current_phase # "action"
                     \/ team.has_submitted
                     \/ amount - HeldOn(team, last'.input.cell_id) > team.resources
                     \/ amount < 0
        IN  rejected =>
              /\ room_store' = room_store
              /\ DOMAIN sent' = {ws}
              /\ Len(sent'[ws]) = 1
              /\ sent'[ws][1].type = "ERROR"]_vars

\* a negative amount was refused in the action phase while the team held a
\* placement on the cell
C15_NegativeAmountRefused ==
    /\ last.op = "PLACE_RESOURCE"
    /\ last.input.amount < 0
    /\ room_store.game_state # NoGame
    /\ room_store.game_state.current_phase = "action"
    /\ ~room_store.teams[1].has_submitted
    /\ room_store.teams[1].placements # <<>>
    /\ 1 \in DOMAIN sent
    /\ sent[1][1].type = "ERROR"

\* the cell ids a placement may name: the cells of the board and the project
KnownCells == {BOARD_CELLS[i].id : i \in 1..Len(BOARD_CELLS)} \cup {PROJECT_CELL_ID}

\* C16: a PLACE_RESOURCE that names a cell id which is neither a cell of the
\* board nor the project leaves the resources and the placements of every
\* team, the sender's included, unchanged.
C16_UnknownCellRefused ==
    [][(last'.op = "PLACE_RESOURCE" /\ last'.input.cell_id \notin KnownCells) =>
        \A i \in 1..Len(room_store.teams) :
            /\ room_store'.teams[i].resources = room_store.teams[i].resources
            /\ room_store'.teams[i].placements = room_store.teams[i].placements]_vars

\* the role the registry holds for a connection of the room
RoleOf(ws) == manager.connections[RoomCode][ws].role

HostOps == {"HOST_START", "HOST_PAUSE", "HOST_RESUME", "HOST_SKIP", "HOST_END"}

PlayerOps == {"PLACE_RESOURCE", "SUBMIT_TURN"}

\* C18: a HOST_START, HOST_PAUSE, HOST_RESUME, HOST_SKIP or HOST_END from a
\* connection that is not authenticated as host, and a PLACE_RESOURCE or
\* SUBMIT_TURN from a connection that is not authenticated as a player
\* (unauthenticated connections and connections whose AUTH failed included),
\* leave the room and the registry unchanged, create no timer task and send
\* nothing to any other connection.
C18_WrongRoleNoEffect ==
    [][(/\ last'.op \in HostOps \cup PlayerOps
        /\ last'.ws \in LiveWs
        /\ IF last'.op \in HostOps THEN RoleOf(last'.ws) # "host"
                                   ELSE RoleOf(last'.ws) # "player") =>
        /\ UNCHANGED <<room_store, manager, pc, timer_tasks, timers>>
        /\ DOMAIN sent' \subseteq {last'.ws}]_vars

\* the connection that never authenticated sent HOST_RESUME to a paused game,
\* which is still paused
C18_UnauthenticatedResumeIgnored ==
    /\ last.op = "HOST_RESUME"
    /\ last.ws = UnauthWs
    /\ ~manager.connections[RoomCode][UnauthWs].authenticated
    /\ room_store.status = "paused"
    /\ timer_tasks = <<>>

\* the connections of the room a broadcast addresses: authenticated, and not
\* the excluded one
Eligible(mgr, exclude) ==
    {w \in DOMAIN mgr.connections[RoomCode] :
        w # exclude /\ mgr.connections[RoomCode][w].authenticated}

\* the websockets on which a send succeeds during the step
Sendable == {w \in DOMAIN pc : pc[w] # "closed"}

\* C19: a broadcast reaches exactly the connections of the room that are
\* authenticated, are not the excluded connection and on which the send
\* succeeds, each with the message the filter returns for it; a send that
\* fails on one connection keeps the message from no other, and a connection
\* that is not authenticated receives nothing.  Checked on the three
\* broadcasts of the lobby: TEAM_DISCONNECTED (no exclusion, no filter),
\* GAME_STATE after HOST_PAUSE (filter) and TEAM_CONNECTED (the new player's
\* connection excluded).
C19_BroadcastRecipients ==
    [][/\ (last'.op = "DISCONNECT" /\ manager.connections[RoomCode][last'.ws].team_id # NoTeam) =>
            /\ DOMAIN sent' = Eligible(manager', NoWs) \cap Sendable
            /\ \A w \in DOMAIN sent' :
                   sent'[w] = <<[type |-> "TEAM_DISCONNECTED",
                                 team_id |-> manager.connections[RoomCode][last'.ws].team_id]>>
       /\ last'.op = "HOST_PAUSE" =>
            /\ DOMAIN sent' = Eligible(manager, NoWs) \cap Sendable
            /\ \A w \in DOMAIN sent' :
                   sent'[w] = <<filter_game_state([type |-> "GAME_STATE", data |-> room_store'],
                                                  manager.connections[RoomCode][w])>>
       /\ (last'.op = "AUTH" /\ manager' # manager) =>
            /\ DOMAIN sent' \ {last'.ws} = Eligible(manager', last'.ws) \cap Sendable
            /\ \A w \in DOMAIN sent' \ {last'.ws} :
                   sent'[w] = <<[type |-> "TEAM_CONNECTED", team_id |-> last'.input.team_id]>>
            /\ \A k \in 1..Len(sent'[last'.ws]) : sent'[last'.ws][k].type # "TEAM_CONNECTED"]_vars

\* team 2 left while the peer of team 1 was gone: the spectator and the host
\* were told, team 1 and the connection that is not authenticated were not
C19_FailureSkipped ==
    /\ last.op = "DISCONNECT"
    /\ last.ws = 2
    /\ 1 \in DOMAIN pc
    /\ pc[1] = "closed"
    /\ UnauthWs \in DOMAIN pc
    /\ ~manager.connections[RoomCode][UnauthWs].authenticated
    /\ DOMAIN sent = {HostWs, SpectatorWs, 3}

\* the connections the registry holds for a room code
ConnectionsOf(code) ==
    IF code \in DOMAIN manager.connections THEN manager.connections[code] ELSE <<>>

\* C20: whether an AUTH succeeds on a connection of a room depends on the
\* connections of that room only: a host AUTH with the host secret succeeds
\* when no connection of the room is the host's, and an AUTH for a team of
\* the room with its session token succeeds when no connection of the room
\* is that team's, whatever connections of another room code hold.
C20_AuthPerSession ==
    [][(/\ last'.op = "AUTH"
        /\ room_store.code = CodeOf(last'.ws)
        /\ IF last'.input.role = "host"
           THEN /\ last'.input.token = HOST_SECRET
                /\ \A w \in DOMAIN ConnectionsOf(room_store.code) :
                       ConnectionsOf(room_store.code)[w].role # "host"
           ELSE /\ validate_session_token(room_store, last'.input.team_id, last'.input.token)
                /\ \A w \in DOMAIN ConnectionsOf(room_store.code) :
                       ConnectionsOf(room_store.code)[w].team_id # last'.input.team_id) =>
        /\ manager'.connections[room_store.code][last'.ws].authenticated
        /\ sent'[last'.ws][1].type = "AUTH_SUCCESS"]_vars

\* C21: the filter changes neither the room nor the message it is handed:
\* after a broadcast of the state, taken in any order of the connections and
\* with any of teams 2 and 3 gone, the message object is still the snapshot
\* of the room, the room is as before, and every recipient has received the
\* view the filter gives for it on that snapshot.
C21_FilterIsPure ==
    [][last'.op = "BROADCAST_STATE" =>
        /\ room_store' = room_store
        /\ last'.input.message = [type |-> "GAME_STATE", data |-> room_store]
        /\ DOMAIN sent' = DOMAIN manager.connections[RoomCode]
        /\ \A w \in DOMAIN sent' :
               sent'[w] = <<filter_game_state([type |-> "GAME_STATE", data |-> room_store],
                                              manager.connections[RoomCode][w])>>]_vars

\* the host was served last, after the spectator and the players, and still
\* received the placements and the session tokens of the teams
C21_HostServedLast ==
    /\ last.op = "BROADCAST_STATE"
    /\ last.input.order[Len(last.input.order)] = HostWs
    /\ last.input.order[1] = SpectatorWs
    /\ Len(last.input.order) = 4
    /\ sent[HostWs][1].data.teams[1].placements # <<>>
    /\ sent[HostWs][1].data.teams[1].session_token = SessionToken(RoomCode, 1)
    /\ sent[SpectatorWs][1].data.teams[1].placements = <<>>

\* C22: the result sent when the game is over names the reason: when the host
\* ended the session with HOST_END the reason is 'host_ended'; otherwise it is
\* 'index_zero', with the first index at or below 0 in the fixed order, when
\* some index is at or below 0, and 'completed' when the last turn was played.
C22_ReasonClassified ==
    \A w \in DOMAIN sent : \A k \in 1..Len(sent[w]) :
        sent[w][k].type = "GAME_OVER" =>
            IF last.op = "HOST_END"
            THEN sent[w][k].data.reason = "host_ended"
            ELSE IF is_any_zero(room_store.game_state.national_indices)
            THEN /\ sent[w][k].data.reason = "index_zero"
                 /\ sent[w][k].data.failed_index = FirstZero(room_store.game_state.national_indices, 1)
            ELSE /\ sent[w][k].data.reason = "completed"
                 /\ room_store.game_state.current_turn = MAX_TURNS

\* the position of a team in the list of the room
IndexOfTeam(team_id) == room_store.teams[FindTeam(room_store.teams, team_id, 1)].index

\* C23: the final ranking of a GAME_OVER message lists every team of the room
\* exactly once, with its cumulative score and the ranks 1..n in order; the
\* scores descend, and of two teams of equal score the one of the smaller
\* team index comes first.
C23_RankingOrdered ==
    \A w \in DOMAIN sent : \A k \in 1..Len(sent[w]) :
        sent[w][k].type = "GAME_OVER" =>
            LET rankings == sent[w][k].data.final_rankings
            IN  /\ Len(rankings) = Len(room_store.teams)
                /\ \A t \in 1..Len(room_store.teams) :
                       Cardinality({i \in 1..Len(rankings) :
                                       rankings[i].team_id = room_store.teams[t].id}) = 1
                /\ \A i \in 1..Len(rankings) :
                       /\ rankings[i].rank = i
                       /\ rankings[i].score =
                              room_store.teams[FindTeam(room_store.teams,
                                                        rankings[i].team_id, 1)].score
                /\ \A i, j \in 1..Len(rankings) :
                       i < j =>
                           \/ rankings[i].score > rankings[j].score
                           \/ /\ rankings[i].score = rankings[j].score
                              /\ IndexOfTeam(rankings[i].team_id)
                                 < IndexOfTeam(rankings[j].team_id)

\* team 3 leads with 12 points, teams 1 and 2 follow with 9 points each in
\* this order, teams 4 and 5 close the ranking with 0
C23_TieKeptListOrder ==
    /\ last.op = "HOST_END"
    /\ HostWs \in DOMAIN sent
    /\ sent[HostWs][1].type = "GAME_OVER"
    /\ sent[HostWs][1].data.final_rankings =
          << [rank |-> 1, team_id |-> TeamId(RoomCode, 3), score |-> 12],
             [rank |-> 2, team_id |-> TeamId(RoomCode, 1), score |-> 9],
             [rank |-> 3, team_id |-> TeamId(RoomCode, 2), score |-> 9],
             [rank |-> 4, team_id |-> TeamId(RoomCode, 4), score |-> 0],
             [rank |-> 5, team_id |-> TeamId(RoomCode, 5), score |-> 0] >>

\* what the teams of the room hold on the project: the sum of the amounts and
\* the number of teams holding a positive amount
RECURSIVE ProjectTotal(_, _)
ProjectTotal(teams, i) ==
    IF i > Len(teams) THEN 0
    ELSE HeldOn(teams[i], PROJECT_CELL_ID) + ProjectTotal(teams, i + 1)

ProjectTeams(teams) ==
    Cardinality({i \in 1..Len(teams) : HeldOn(teams[i], PROJECT_CELL_ID) > 0})

\* a step that resolves the round: the action phase is left
Resolved == Advanced /\ InPhase("action")

\* the TURN_RESULT the host was sent in the step
TurnResultSent == sent'[HostWs][1].data

\* C24: at resolution the project succeeds if and only if the teams hold at
\* least min_total on it in total and at least min_teams teams hold a positive
\* amount; the status of the project becomes 'success' or 'failure'
\* accordingly, and the TURN_RESULT says the same.
C24_ProjectBoundary ==
    [][Resolved =>
        LET project == room_store.game_state.project_status
            success == /\ ProjectTotal(room_store.teams, 1) >= project.min_total
                       /\ ProjectTeams(room_store.teams) >= project.min_teams
        IN  /\ room_store'.game_state.project_status.status =
                   (IF success THEN "success" ELSE "failure")
            /\ TurnResultSent.project_success = success]_vars

\* three teams hold 6, 7 and 7 on the project, exactly the 20 asked from
\* exactly 3 teams, and the project has succeeded
C24_SuccessAtThreshold ==
    /\ InPhase("resolution")
    /\ room_store.game_state.project_status.min_total = 20
    /\ room_store.game_state.project_status.min_teams = 3
    /\ ProjectTotal(room_store.teams, 1) = 20
    /\ ProjectTeams(room_store.teams) = 3
    /\ room_store.game_state.project_status.status = "success"

\* the indices after the deltas of an event are applied, each clamped to
\* 0..INDEX_MAXIMUM; the entry 'points' is no index
IndicesAfter(indices, deltas) ==
    [k \in IndexNames |->
        IF k \in DOMAIN deltas
        THEN (IF indices[k] + deltas[k] < 0 THEN 0
              ELSE IF indices[k] + deltas[k] > INDEX_MAXIMUM THEN INDEX_MAXIMUM
              ELSE indices[k] + deltas[k])
        ELSE indices[k]]

\* what a team's turn score holds besides its share of the bonus: the points
\* of its cells and, if the project succeeded, 1 point per resource it holds
\* on the project, cut to an integer
PointsBeforeBonus(team_id, success) ==
    (CellPoints(room_store.game_state.board, team_id, 1)
     + (IF success
        THEN HeldOn(room_store.teams[FindTeam(room_store.teams, team_id, 1)],
                    PROJECT_CELL_ID) * PROJECT_SUCCESS_BONUS_PER_RP * PointScale
        ELSE 0)) \div PointScale

\* the share of the bonus the TURN_RESULT of the step gives the i-th team
ShareOf(i) ==
    TurnResultSent.team_scores[i].turn_score
    - PointsBeforeBonus(TurnResultSent.team_scores[i].team_id, TRUE)

RECURSIVE SumOfShares(_)
SumOfShares(i) == IF i = 0 THEN 0 ELSE ShareOf(i) + SumOfShares(i - 1)

\* C25 as stated: on success the shares of the bonus the teams are given sum
\* to the flat bonus-points value of the event.
C25_SharesSumToBonus ==
    [][(Resolved /\ TurnResultSent.project_success) =>
        SumOfShares(Len(room_store.teams))
            = room_store.game_state.current_event.success_reward.points]_vars

\* C25, amended: on success the deltas of the event's success reward, without
\* 'points', are applied to the indices and clamped; every team holding a
\* positive amount on the project scores its cell points plus 1 point per
\* resource on the project plus the bonus divided by the number of such
\* teams, rounded down; every other team scores its cell points only.  The
\* shares are equal and sum to at most the bonus.
C25_BonusSplitRoundedDown ==
    [][(Resolved /\ TurnResultSent.project_success) =>
        LET reward == room_store.game_state.current_event.success_reward
            n == ProjectTeams(room_store.teams)
        IN  /\ room_store'.game_state.national_indices =
                   IndicesAfter(room_store.game_state.national_indices,
                                [k \in DOMAIN reward \ {"points"} |-> reward[k]])
            /\ \A i \in 1..Len(room_store.teams) :
                   /\ TurnResultSent.team_scores[i].team_id = room_store.teams[i].id
                   /\ ShareOf(i) * n <= reward.points
                   /\ IF HeldOn(room_store.teams[i], PROJECT_CELL_ID) > 0
                      THEN (ShareOf(i) + 1) * n > reward.points
                      ELSE ShareOf(i) = 0
                   /\ room_store'.teams[i].score
                         = room_store.teams[i].score + TurnResultSent.team_scores[i].turn_score]_vars

\* the project of turn 1 has succeeded with 6, 7 and 7 from three teams, team 1
\* holding 4 on a synergy cell besides: the bonus of 8 gave each team 2, the
\* scores are 15 (7.2 + 6 + 2), 9 and 9, and economy and society rose
C25_BonusOfEightAmongThree ==
    /\ InPhase("resolution")
    /\ room_store.game_state.current_turn = 1
    /\ room_store.game_state.project_status.status = "success"
    /\ room_store.teams[1].score = 15
    /\ room_store.teams[2].score = 9
    /\ room_store.teams[3].score = 9
    /\ room_store.teams[4].score = 0
    /\ room_store.game_state.national_indices.economy = 14
    /\ room_store.game_state.national_indices.society = 13
    /\ room_store.game_state.national_indices.culture = 10

\* C26: when the project fails at resolution, the deltas of the event's
\* failure penalty are applied to the indices, each clamped to
\* 0..INDEX_MAXIMUM, and the turn score of every team is the points of its
\* regular cells only, whatever it holds on the project.
C26_FailurePenaltyOnly ==
    [][(Resolved /\ ~TurnResultSent.project_success) =>
        /\ room_store'.game_state.national_indices =
               IndicesAfter(room_store.game_state.national_indices,
                            room_store.game_state.current_event.failure_penalty)
        /\ TurnResultSent.index_changes = room_store.game_state.current_event.failure_penalty
        /\ \A i \in 1..Len(room_store.teams) :
               /\ TurnResultSent.team_scores[i].team_id = room_store.teams[i].id
               /\ TurnResultSent.team_scores[i].turn_score
                     = PointsBeforeBonus(room_store.teams[i].id, FALSE)
               /\ room_store'.teams[i].score
                     = room_store.teams[i].score + PointsBeforeBonus(room_store.teams[i].id, FALSE)]_vars

\* the project of turn 1 has failed with 6 from team 1 and 10 from team 2:
\* team 1 has the 7 points of its synergy cell, team 2 has none, and economy
\* and society fell by 4 and 3
C26_FailedWithContributions ==
    /\ InPhase("resolution")
    /\ room_store.game_state.project_status.status = "failure"
    /\ HeldOn(room_store.teams[1], PROJECT_CELL_ID) = 6
    /\ HeldOn(room_store.teams[2], PROJECT_CELL_ID) = 10
    /\ room_store.teams[1].score = 7
    /\ room_store.teams[2].score = 0
    /\ room_store.game_state.national_indices.economy = 6
    /\ room_store.game_state.national_indices.society = 7
    /\ room_store.game_state.national_indices.science = 10

\* the scores the TURN_RESULT of the step lists for a cell
CellResultSent(cell_id) ==
    LET results == TurnResultSent.cell_results
    IN  results[CHOOSE i \in 1..Len(results) : results[i].cell_id = cell_id].team_scores

\* the teams holding a positive amount on a cell, and the highest amount held
HoldersOf(cell_id) ==
    {i \in 1..Len(room_store.teams) : HeldOn(room_store.teams[i], cell_id) > 0}

HighestOn(cell_id) ==
    CHOOSE a \in 0..RESOURCES_PER_TURN :
        /\ \A i \in 1..Len(room_store.teams) : HeldOn(room_store.teams[i], cell_id) <= a
        /\ a > 0 => \E i \in 1..Len(room_store.teams) : HeldOn(room_store.teams[i], cell_id) = a

\* the scores of a cell list exactly the teams holding a positive amount on it
ListsHolders(scores, cell_id) ==
    \A i \in 1..Len(room_store.teams) :
        Cardinality({j \in 1..Len(scores) : scores[j].team_id = room_store.teams[i].id})
            = (IF i \in HoldersOf(cell_id) THEN 1 ELSE 0)

\* C27: on a competitive cell the teams holding the highest amount score the
\* same, their scores sum to that amount times the multiplier of the cell
\* type (1.5), and every other team holding something on the cell scores 0.
\* Points are in units of 1/PointScale.
C27_CompetitiveSplit ==
    [][Resolved =>
        \A c \in 1..Len(BOARD_CELLS) :
            BOARD_CELLS[c].type = "competitive" =>
                LET cell_id == BOARD_CELLS[c].id
                    scores == CellResultSent(cell_id)
                    winners == {i \in HoldersOf(cell_id) :
                                   HeldOn(room_store.teams[i], cell_id) = HighestOn(cell_id)}
                IN  /\ ListsHolders(scores, cell_id)
                    /\ \A j \in 1..Len(scores) :
                           IF \E i \in winners : room_store.teams[i].id = scores[j].team_id
                           THEN scores[j].points * Cardinality(winners)
                                  = HighestOn(cell_id) * 15 * (PointScale \div 10)
                           ELSE scores[j].points = 0]_vars

\* teams 1 and 2 hold 7 each on the competitive cell and team 3 holds 5: the
\* round is resolved, teams 1 and 2 have half of 10.5 each (5 after int())
\* and team 3 has 0
C27_TwoWinnersHalfEach ==
    /\ InPhase("resolution")
    /\ last.op = "TIMER_FIRE"
    /\ HeldOn(room_store.teams[1], "cell-0-3") = 7
    /\ HeldOn(room_store.teams[2], "cell-0-3") = 7
    /\ HeldOn(room_store.teams[3], "cell-0-3") = 5
    /\ HoldersOf("cell-0-0") = {}
    /\ sent[HostWs][1].type = "TURN_RESULT"
    /\ sent[HostWs][1].data.cell_results[4].team_scores =
          << [team_id |-> TeamId(RoomCode, 1), points |-> (21 * PointScale) \div 4],
             [team_id |-> TeamId(RoomCode, 2), points |-> (21 * PointScale) \div 4],
             [team_id |-> TeamId(RoomCode, 3), points |-> 0] >>
    /\ room_store.teams[1].score = 5
    /\ room_store.teams[3].score = 0

\* C28: on a cooperation cell, when fewer than COOPERATION_MIN_TEAMS teams
\* hold a positive amount every team holding one scores 0; otherwise each
\* such team scores its amount times the multiplier of the cell type (2.5),
\* whatever the others hold.
C28_CooperationThreshold ==
    [][Resolved =>
        \A c \in 1..Len(BOARD_CELLS) :
            BOARD_CELLS[c].type = "cooperation" =>
                LET cell_id == BOARD_CELLS[c].id
                    scores == CellResultSent(cell_id)
                IN  /\ ListsHolders(scores, cell_id)
                    /\ \A j \in 1..Len(scores) :
                           scores[j].points =
                               IF Cardinality(HoldersOf(cell_id)) < 2
                               THEN 0
                               ELSE HeldOn(room_store.teams[FindTeam(room_store.teams,
                                                                    scores[j].team_id, 1)],
                                           cell_id) * 25 * (PointScale \div 10)]_vars

\* team 2 alone holds 3 on the cooperation cell: the round is resolved and
\* team 2 has scored nothing
C28_LoneTeamScoresNothing ==
    /\ InPhase("resolution")
    /\ last.op = "TIMER_FIRE"
    /\ HoldersOf("cell-0-0") = {2}
    /\ HoldersOf("cell-0-3") = {}
    /\ sent[HostWs][1].type = "TURN_RESULT"
    /\ sent[HostWs][1].data.cell_results[1].team_scores =
          << [team_id |-> TeamId(RoomCode, 2), points |-> 0] >>
    /\ room_store.teams[2].score = 0

\* the operations of the engine a team may ask for in the action phase
EngineOps ==
    [kind : {"place"}, team : 1..MIN_CONNECTED_TEAMS,
     cell_id : {PROJECT_CELL_ID, "cell-0-3"}, amount : {-1, 0, 7, 8}]
    \cup [kind : {"submit"}, team : 1..MIN_CONNECTED_TEAMS, cell_id : {""}, amount : {0}]

ApplyOp(rm, op) ==
    IF op.kind = "place"
    THEN place_resource(rm, rm.teams[op.team].id, op.cell_id, op.amount)
    ELSE submit_turn(rm, rm.teams[op.team].id)

\* b after a and a after b, given what each does first: the same room is
\* left, and each operation is accepted or refused, with the same error, in
\* both orders
SameEitherOrder(first_a, b_after_a, first_b, a_after_b) ==
    /\ b_after_a.room = a_after_b.room
    /\ first_a.raised = a_after_b.raised
    /\ first_b.raised = b_after_a.raised

Commute(rm, a, b, first_a, first_b) ==
    SameEitherOrder(first_a, ApplyOp(first_a.room, b), first_b, ApplyOp(first_b.room, a))

OnlyFlagSet(team_id, value) ==
    /\ FindTeam(room_store.teams, team_id, 1) # 0
    /\ room_store' =
          [room_store EXCEPT
              !.teams[FindTeam(room_store.teams, team_id, 1)].is_connected = value]

\* C30: in the action phase, the disconnection of a team's player changes
\* only the team's connectivity flag (to false) and releases its binding in
\* the registry; an AUTH that succeeds for the team changes only the flag (to
\* true) and binds the team to the new connection.  Placements, resources,
\* score, submitted flag, board and phase stay as they were.  In every state
\* all_teams_submitted holds exactly when every team whose flag is true has
\* submitted.
C30_ReconnectKeepsTurn ==
    /\ [](room_store.game_state # NoGame =>
            (all_teams_submitted(room_store) <=>
                \A i \in 1..Len(room_store.teams) :
                    room_store.teams[i].has_submitted \/ ~room_store.teams[i].is_connected))
    /\ [][/\ ((last'.op = "DISCONNECT" /\ InPhase("action")
                /\ manager.connections[RoomCode][last'.ws].team_id # NoTeam) =>
                 (/\ OnlyFlagSet(manager.connections[RoomCode][last'.ws].team_id, FALSE)
                  /\ manager.connections[RoomCode][last'.ws].team_id
                        \notin DOMAIN manager'.team_connections))
           /\ ((last'.op = "AUTH" /\ InPhase("action") /\ manager' # manager) =>
                 (/\ OnlyFlagSet(last'.input.team_id, TRUE)
                  /\ manager'.team_connections[last'.input.team_id] = last'.ws))]_vars

\* team 2 placed 7 and submitted, its player left and has come back on another
\* websocket: the team is connected again, with its placement, its 7
\* remaining resources and its submitted flag
C30_CameBackWithPlacement ==
    /\ InPhase("action")
    /\ last.op = "AUTH"
    /\ last.ws = UnauthWs
    /\ sent[UnauthWs][1].type = "AUTH_SUCCESS"
    /\ 2 \notin DOMAIN manager.connections[RoomCode]
    /\ manager.team_connections[TeamId(RoomCode, 2)] = UnauthWs
    /\ room_store.teams[2].is_connected
    /\ room_store.teams[2].has_submitted
    /\ room_store.teams[2].resources = 7
    /\ room_store.teams[2].placements = <<[cell_id |-> "cell-0-3", amount |-> 7]>>
    /\ room_store.game_state.board[4].placements # <<>>

ScoringOps == {"calculate_cell_scores", "calculate_project_result"}

\* C31: a call of calculate_cell_scores or of calculate_project_result leaves
\* the room (the cell, the contribution list and everything else), the
\* registry and the timers as they were, and a call that follows a call on
\* the same cell (or on the project) returns what the first one returned.
C31_ScoringIsPure ==
    [][last'.op \in ScoringOps =>
        /\ room_store' = room_store
        /\ UNCHANGED <<manager, pc, timer_tasks, timers>>
        /\ (last.op = last'.op /\ last.input.target = last'.input.target) =>
               last'.input.returned = last.input.returned]_vars

\* the competitive cell holds 0, 7 and 7: a call has returned the pool split
\* between teams 2 and 3, and the cell still lists the entry of amount 0
C31_ScoredTwiceWithZeroEntry ==
    /\ last.op = "calculate_cell_scores"
    /\ last.input.target = "cell-0-3"
    /\ MapAmount(room_store.game_state.board[4].placements) = <<0, 7, 7>>
    /\ last.input.returned =
          <<[team_id |-> TeamId(RoomCode, 2), points |-> (7 * Multiplier("competitive")) \div 2],
            [team_id |-> TeamId(RoomCode, 3), points |-> (7 * Multiplier("competitive")) \div 2]>>

\* the scores of the teams, in list order
RECURSIVE MapScore(_)
MapScore(teams) == IF teams = <<>> THEN <<>> ELSE <<Head(teams).score>> \o MapScore(Tail(teams))

\* C32: once the status of the session is finished, no step changes the
\* status, the phase, the turn, the national indices or a team's score.
C32_FinishedIsAbsorbing ==
    [][room_store.status = "finished" =>
        /\ room_store'.status = "finished"
        /\ room_store'.game_state.current_phase = room_store.game_state.current_phase
        /\ room_store'.game_state.current_turn = room_store.game_state.current_turn
        /\ room_store'.game_state.national_indices = room_store.game_state.national_indices
        /\ MapScore(room_store'.teams) = MapScore(room_store.teams)]_vars

\* C33: a SUBMIT_TURN handled while the phase is event, resolution or result
\* changes neither the phase nor the turn, at the message and when its
\* handler resumes after the TEAM_SUBMITTED broadcast.
C33_SubmitOutsideActionKeepsPhase ==
    [][(/\ last'.op \in {"SUBMIT_TURN", "SUBMIT_RESUME"}
        /\ room_store.status = "playing"
        /\ ~InPhase("action")) =>
           /\ room_store'.game_state.current_phase = room_store.game_state.current_phase
           /\ room_store'.game_state.current_turn = room_store.game_state.current_turn]_vars

\* the TURN_RESULT messages the step has sent to the host's connection
TurnResultsSent == SelectSeq(sent'[HostWs], IsTurnResult)

\* C34: the (turn, phase) of a started session never moves back, so the
\* action phase of a turn is left at most once.  The step that leaves it sends
\* one TURN_RESULT, of that turn, and adds to each team's score the turn score
\* the result reports for it, which is not negative; the total it reports is
\* the new score.  Every other step sends no TURN_RESULT and leaves every
\* score as it was.  Scores are 0 until the game starts.
C34_ResolvedOncePerTurn ==
    /\ [](room_store.game_state = NoGame =>
            \A i \in 1..Len(room_store.teams) : room_store.teams[i].score = 0)
    /\ [][room_store.game_state # NoGame =>
            /\ PhaseOrd(room_store'.game_state) >= PhaseOrd(room_store.game_state)
            /\ IF InPhase("action") /\ room_store'.game_state.current_phase # "action"
               THEN /\ Len(TurnResultsSent) = 1
                    /\ TurnResultsSent[1].data.turn = room_store.game_state.current_turn
                    /\ \A i \in 1..Len(room_store.teams) :
                          LET reported == TurnResultsSent[1].data.team_scores[i]
                          IN  /\ reported.team_id = room_store.teams[i].id
                              /\ reported.turn_score >= 0
                              /\ room_store'.teams[i].score
                                    = room_store.teams[i].score + reported.turn_score
                              /\ reported.total_score = room_store'.teams[i].score
               ELSE /\ \A ws \in DOMAIN sent' : SelectSeq(sent'[ws], IsTurnResult) = <<>>
                    /\ MapScore(room_store'.teams) = MapScore(room_store.teams)]_vars

\* the second turn has been resolved: team 1 is reported a positive turn
\* score and a total that is larger, the sum of two turns
C34_SecondTurnAdded ==
    /\ InPhase("resolution")
    /\ room_store.game_state.current_turn = 2
    /\ HostWs \in DOMAIN sent
    /\ \E i \in 1..Len(sent[HostWs]) :
          /\ IsTurnResult(sent[HostWs][i])
          /\ sent[HostWs][i].data.team_scores[1].turn_score > 0
          /\ sent[HostWs][i].data.team_scores[1].total_score
                > sent[HostWs][i].data.team_scores[1].turn_score
          /\ sent[HostWs][i].data.team_scores[1].total_score = room_store.teams[1].score

\* C35: a team's is_connected flag is true exactly when a live connection is
\* authenticated as the player of the team.
C35_FlagMatchesConnection ==
    \A i \in 1..Len(room_store.teams) :
        room_store.teams[i].is_connected <=> PlayersAs(room_store.teams[i].id) # {}

\* C36: in a started session the pause flag is set exactly when the status
\* of the session is paused.
C36_PauseFlagMatchesStatus ==
    room_store.game_state # NoGame =>
        (room_store.game_state.is_paused <=> room_store.status = "paused")

\* the (team, amount) pairs of a placement list of a cell or of the project
EntriesOf(list) == {<<list[j].team_id, list[j].amount>> : j \in 1..Len(list)}

\* the (team, amount) pairs the teams hold on a cell
HeldBy(teams, cell_id) ==
    UNION {{<<teams[i].id, teams[i].placements[k].amount>> :
               k \in {n \in 1..Len(teams[i].placements) :
                          teams[i].placements[n].cell_id = cell_id}} :
           i \in 1..Len(teams)}

RECURSIVE MapId(_)
MapId(s) == IF s = <<>> THEN <<>> ELSE <<Head(s).id>> \o MapId(Tail(s))

\* C38: a step that takes the session from the result phase to the event
\* phase raises the turn by one and leaves every team with
\* RESOURCES_PER_TURN resources, no placement and has_submitted false, every
\* board cell without placements, and the project status pending, with no
\* contribution and the thresholds of the new turn's event; the scores and
\* the connectivity flags of the teams, the teams and the cells are as before.
C38_NewTurnStartsClean ==
    [][(InPhase("result") /\ room_store'.game_state.current_phase = "event") =>
        LET gs == room_store'.game_state
            turn == room_store.game_state.current_turn + 1
        IN  /\ gs.current_turn = turn
            /\ \A i \in 1..Len(room_store'.teams) :
                  /\ room_store'.teams[i].resources = RESOURCES_PER_TURN
                  /\ room_store'.teams[i].placements = <<>>
                  /\ ~room_store'.teams[i].has_submitted
                  /\ room_store'.teams[i].is_connected = room_store.teams[i].is_connected
            /\ MapScore(room_store'.teams) = MapScore(room_store.teams)
            /\ MapId(room_store'.teams) = MapId(room_store.teams)
            /\ MapId(gs.board) = MapId(room_store.game_state.board)
            /\ \A i \in 1..Len(gs.board) :
                  /\ gs.board[i].placements = <<>>
                  /\ gs.board[i].type = room_store.game_state.board[i].type
            /\ gs.project_status =
                  [status |-> "pending", total_contributed |-> 0,
                   contributing_teams |-> <<>>,
                   min_total |-> TURN_EVENTS[turn].min_total,
                   min_teams |-> TURN_EVENTS[turn].min_teams]]_vars

\* the timer of the result phase of turn 1 has opened turn 2 after a turn in
\* which team 1 scored: the team is clean and keeps its score, team 5 is
\* still not connected
C38_SecondTurnOpened ==
    /\ InPhase("event")
    /\ room_store.game_state.current_turn = 2
    /\ last.op = "TIMER_FIRE"
    /\ last.timer.current_phase = "result"
    /\ room_store.teams[1].score > 0
    /\ room_store.teams[1].placements = <<>>
    /\ ~room_store.teams[1].has_submitted
    /\ ~room_store.teams[NUM_TEAMS].is_connected

\* a timer task has been created and has not run yet, or a timer sleeps that
\* captured the current turn and phase
TimerPending ==
    \/ RoomCode \in DOMAIN timer_tasks
    \/ \E timer \in DOMAIN timers :
          /\ timer.code = RoomCode
          /\ timer.current_turn = room_store.game_state.current_turn
          /\ timer.current_phase = room_store.game_state.current_phase

\* C39 (amended): whenever the session is playing and not paused a timer is pending
\* for the current turn and phase, and the turn is at most MAX_TURNS; if from
\* some point on the session is never paused (every pause has been followed
\* by a resume), the session reaches the status finished.
C39_TimersEndTheGame ==
    /\ []((room_store.status = "playing" /\ ~room_store.game_state.is_paused) =>
            (TimerPending /\ room_store.game_state.current_turn <= MAX_TURNS))
    /\ (<>[](room_store.status # "paused") => <>(room_store.status = "finished"))

\* the timer of a result phase has woken and ended the game
C39_TimerFinishedGame ==
    /\ room_store.status = "finished"
    /\ last.op = "TIMER_FIRE"
    /\ last.timer.current_phase = "result"

\* C39 as stated: a timer is pending whenever the session is playing and not
\* paused, and if every pause is followed by a resume (whenever the status is
\* paused it is later not paused) the session reaches the status finished.
C39_EveryPauseResumed ==
    /\ []((room_store.status = "playing" /\ ~room_store.game_state.is_paused) =>
            (TimerPending /\ room_store.game_state.current_turn <= MAX_TURNS))
    /\ ([](room_store.status = "paused" => <>(room_store.status # "paused"))
          => <>(room_store.status = "finished"))

\* C40: after a pause and a resume within a phase, a timer scheduled before
\* the pause does not advance the phase.  Right after the HOST_RESUME the
\* task it created has not run yet, so a timer that wakes then was scheduled
\* earlier: it leaves phase and turn as they are.
C40_OldTimerDoesNotAdvance ==
    [][(last.op = "HOST_RESUME" /\ last'.op = "TIMER_FIRE") =>
          /\ room_store'.game_state.current_phase = room_store.game_state.current_phase
          /\ room_store'.game_state.current_turn = room_store.game_state.current_turn]_vars

=============================================================================
